---- MODULE Spec2Model ----
(***************************************************************************)
(* Model of the Notion chatbot's content pipeline: block rendering and     *)
(* page flattening (notion_pages.py), database flattening                  *)
(* (notion_databases.py), content aggregation and prompt composition       *)
(* (mainv2.py, streamlit_notion_chatbot.py).                               *)
(*                                                                         *)
(* Python str values are TLA+ strings; TLC evaluates Len, \o and SubSeq on *)
(* them character by character, so every text operation below works on the *)
(* characters the code works on.                                           *)
(***************************************************************************)
EXTENDS Integers, Sequences, FiniteSets, TLC

VARIABLES
    pc,               \* position of the modelled component
    page_title,       \* flatten: title returned by extract_title
    page_blocks,      \* flatten: the page's top-level blocks
    page_fetch_ok,    \* flatten: FALSE when the provider call raises
    content_data,     \* flatten: value returned by get_page_content
    block_texts,      \* flatten: block_text of every pass of the block loop
    front,            \* chat: "cli" (mainv2.py) or "streamlit" (streamlit_notion_chatbot.py)
    user_name,        \* chat: the name as entered
    user_id,          \* chat: the owner key derived from it
    notion_content,   \* chat: the loaded content of the session
    notion_loaded,    \* chat: self.notion_loaded (CLI only)
    user_message,     \* chat: the message of the current turn
    search_result,    \* chat: what memory.search returned
    relevant_memories,\* chat: what get_relevant_memories returned
    context,          \* chat: context of generate_response, the memory part of the prompt
    notion_context,   \* chat: notion_context of generate_response, the content part
    system_prompt,    \* chat: the system prompt built by generate_response
    groq_messages,    \* chat: the messages sent to the completion provider
    chat_completion,  \* chat: what the completion call returned, or that it raised
    calls,            \* chat: the collaborator calls of the last turn, in their order
    response,         \* chat: what generate_response returned
    memory_added,     \* chat: the message lists passed to memory.add, in order
    store,            \* chat: the message lists the memory store holds, with their owner
    database,         \* database: what databases.retrieve returned (title, schema)
    query_results,    \* database: the pages databases.query returned
    db_fetch_ok,      \* database: FALSE when a provider call raises
    db_content,       \* database: value returned by get_database_content
    formatted,        \* database: text returned by format_database_content
    selected_databases,   \* load: whether any database was selected
    workspace_databases,  \* load: the databases of the workspace, or that listing them raises
    selected_pages,       \* load: the selected pages, in selection order
    database_content,     \* load: local of load_notion_content
    page_content,         \* load: local of load_notion_content
    page_index,           \* load: position of the page loop (1-based)
    fetched,              \* load: the pages get_page_content was called on, in order
    page_outcomes,        \* load: how each of those calls ended
    summary,              \* load: the counts shown by the content summary
    command_count,    \* session: commands begun so far
    command,          \* session: the command being handled, or handled last
    delete_ok,        \* session: whether delete_all of the last clear succeeded
    store_before,     \* session: the store when the last clear began
    content_before,   \* session: the loaded content when the last clear began
    get_all_result,   \* memories: what memory.get_all returned, or that it raised
    displayed,        \* memories: the texts shown by the memory command, in order
    env,              \* startup: which of the three keys the environment holds
    chatbot,          \* startup: a chatbot object has been constructed
    user_input,       \* chat loop: the line read last
    input_left,       \* chat loop: the lines the input stream still holds
    loop_errors,      \* chat loop: the errors the loop has reported and continued after,
                      \* counted from 0 again past MaxLoopErrors
    page_selection,   \* selection: the answer to "Select pages to load", stripped
    listed_pages      \* selection: the pages get_accessible_pages listed

flattenVars == <<page_title, page_blocks, page_fetch_ok, content_data, block_texts>>

chatVars ==
    <<front, user_name, user_id, notion_content, notion_loaded, user_message, search_result,
      relevant_memories, context, notion_context, system_prompt, groq_messages, chat_completion, calls, response,
      memory_added, store>>

dbVars == <<database, query_results, db_fetch_ok, db_content, formatted>>

loadVars ==
    <<selected_databases, workspace_databases, selected_pages, database_content, page_content,
      page_index, fetched, page_outcomes, summary>>

sessionVars == <<command_count, command, delete_ok, store_before, content_before>>

memoryVars == <<get_all_result, displayed>>

startVars == <<env, chatbot>>

loopVars == <<user_input, input_left, loop_errors>>

selectVars == <<page_selection, listed_pages>>

vars ==
    <<pc, flattenVars, chatVars, dbVars, loadVars, sessionVars, memoryVars, startVars, loopVars,
      selectVars>>

------------------------------------------------------------------------------
(* Bounds of the model and constants of the program *)

\* limit=5 of get_relevant_memories: the most records a search returns
SearchLimit == 5

\* the [:3] of generate_response
ContextMemories == 3

\* the [:3000] of generate_response
PreviewBudget == 3000

\* the [:10] of show_memories
DisplayWindow == 10

\* "Limit to 5 displayed memories"
DisplayLimit == 5

\* the [:150] of show_memories
MemoryPreview == 150

\* the limit of the Show Memories button
StreamlitDisplayLimit == 10

\* "=" * 80, the rule under a banner
BannerWidth == 80

\* "-" * 40, the rule above a database entry
EntryRuleWidth == 40

\* records of a database
MaxEntries == 2

\* pages selected for one load
MaxPages == 3

\* stored memories older than the snapshots
MaxOlder == 2

\* stored snapshots
MaxSnapshots == 6

\* stored memories more recent than the snapshots
MaxRecent == 5

\* pages the workspace lists for the selection
MaxListed == 3

\* lines of the input stream of a CLI session
MaxInputs == 3

\* errors of the chat loop that are told apart
MaxLoopErrors == 2

\* commands (load, reload, clear) of one session
MaxCommands == 2

\* blocks of a page built from the core block kinds
MaxBlocks == 4

\* blocks of a page built from every block kind
MaxMixedBlocks == 2

------------------------------------------------------------------------------
(* Python str primitives *)

Char(s, i) == SubSeq(s, i, i)

\* str.startswith
StartsWith(s, p) == Len(s) >= Len(p) /\ SubSeq(s, 1, Len(p)) = p

\* sub occurs in s at position i
OccursAt(s, sub, i) == i >= 1 /\ i + Len(sub) - 1 <= Len(s) /\ SubSeq(s, i, i + Len(sub) - 1) = sub

\* the `in` operator on strings
Contains(s, sub) == \E i \in 1..(Len(s) + 1) : OccursAt(s, sub, i)

Min(S) == CHOOSE x \in S : \A y \in S : x <= y

Max(S) == CHOOSE x \in S : \A y \in S : y <= x

\* str.find from position i: the first position >= i where sub occurs, 0 if none
NextOcc(s, sub, i) ==
    LET J == {j \in i..(Len(s) - Len(sub) + 1) : OccursAt(s, sub, j)}
    IN  IF J = {} THEN 0 ELSE Min(J)

RECURSIVE CountFrom(_, _, _)
CountFrom(s, sub, i) ==
    LET j == NextOcc(s, sub, i)
    IN  IF j = 0 THEN 0 ELSE 1 + CountFrom(s, sub, j + Len(sub))

\* str.count: non-overlapping occurrences, scanning left to right
Count(s, sub) == CountFrom(s, sub, 1)

RECURSIVE Repeat(_, _)
\* the * operator on a str and an int
Repeat(s, n) ==
    IF n <= 0 THEN ""
    ELSE IF n = 1 THEN s
    ELSE LET half == Repeat(s, n \div 2)
         IN  IF n % 2 = 0 THEN half \o half ELSE half \o half \o s

\* characters that \s and str.strip treat as whitespace
Whitespace == {" ", "\n", "\t", "\r", "\f"}

IsSpace(c) == c \in Whitespace

AllSpace(s, lo, hi) == \A k \in lo..hi : IsSpace(Char(s, k))

\* str.lstrip: a strip that leaves the end of the text alone
LStripOnly(s) ==
    LET K == {k \in 1..Len(s) : ~IsSpace(Char(s, k))}
    IN  IF K = {} THEN "" ELSE SubSeq(s, Min(K), Len(s))

\* str.strip: from the first to the last character that is not whitespace
Strip(s) ==
    LET K == {k \in 1..Len(s) : ~IsSpace(Char(s, k))}
    IN  IF K = {} THEN "" ELSE SubSeq(s, Min(K), Max(K))

RECURSIVE SplitFrom(_, _, _)
SplitFrom(s, sep, start) ==
    LET j == NextOcc(s, sep, start)
    IN  IF j = 0 THEN <<SubSeq(s, start, Len(s))>>
        ELSE <<SubSeq(s, start, j - 1)>> \o SplitFrom(s, sep, j + Len(sep))

\* str.split(sep): always at least one piece
Split(s, sep) == SplitFrom(s, sep, 1)

RECURSIVE ReplaceFrom(_, _, _, _)
ReplaceFrom(s, old, new, i) ==
    LET j == NextOcc(s, old, i)
    IN  IF j = 0 THEN SubSeq(s, i, Len(s))
        ELSE SubSeq(s, i, j - 1) \o new \o ReplaceFrom(s, old, new, j + Len(old))

\* str.replace(old, new) for a non-empty old
Replace(s, old, new) == ReplaceFrom(s, old, new, 1)

RECURSIVE Join(_, _)
\* sep.join(pieces)
Join(sep, pieces) ==
    IF Len(pieces) = 0 THEN ""
    ELSE IF Len(pieces) = 1 THEN pieces[1]
    ELSE pieces[1] \o sep \o Join(sep, Tail(pieces))

RECURSIVE ConcatAll(_)
\* += over a list of strings
ConcatAll(pieces) == IF Len(pieces) = 0 THEN "" ELSE pieces[1] \o ConcatAll(Tail(pieces))

\* all sequences over S of length 0..n
SeqsUpTo(S, n) == UNION {[1..k -> S] : k \in 0..n}

------------------------------------------------------------------------------
(* notion_pages.py: block renderer and page flattener *)

\* The glyph literals of extract_text_from_block.  The source file holds them
\* as the characters U+00E2 U+20AC U+00A2 (bulleted item), U+00E2 U+02DC U+2018
\* (checked) and U+00E2 U+02DC (unchecked); they are written here by their code
\* points because the module is kept in ASCII.
BulletGlyph == "<U+00E2><U+20AC><U+00A2>"

CheckedGlyph == "<U+00E2><U+02DC><U+2018>"

UncheckedGlyph == "<U+00E2><U+02DC>"

\* the code fence of a code block: three U+0060 characters in the source, which
\* a TLA+ string cannot hold
CodeFence == "~~~"

\* a block as the provider returns it; children holds what
\* blocks.children.list returns for it, children_ok = FALSE when that call raises
Block(type, rich_text, language, checked, has_children, children, children_ok) ==
    [type |-> type, rich_text |-> rich_text, language |-> language, checked |-> checked,
     has_children |-> has_children, children |-> children, children_ok |-> children_ok]

Leaf(type, rich_text) == Block(type, rich_text, "", FALSE, FALSE, <<>>, TRUE)

\* a renderer that keeps the text of the recognized block types only
ExtractRecognizedOnly(block) ==
    LET text_content == ConcatAll(block.rich_text)
        block_type == block.type
    IN  CASE block_type = "heading_1" -> "\n# " \o text_content \o "\n"
          [] block_type = "heading_2" -> "\n## " \o text_content \o "\n"
          [] block_type = "heading_3" -> "\n### " \o text_content \o "\n"
          [] block_type = "paragraph" -> text_content \o "\n"
          [] block_type = "bulleted_list_item" -> BulletGlyph \o " " \o text_content \o "\n"
          [] block_type = "numbered_list_item" -> "1. " \o text_content \o "\n"
          [] block_type = "to_do" ->
                (IF block.checked THEN CheckedGlyph ELSE UncheckedGlyph) \o " " \o text_content \o "\n"
          [] block_type = "quote" -> "> " \o text_content \o "\n"
          [] block_type = "code" -> CodeFence \o block.language \o "\n" \o text_content \o "\n" \o CodeFence \o "\n"
          [] block_type = "divider" -> "\n---\n"
          [] OTHER -> ""

extract_text_from_block(block) ==
    LET text_content == ConcatAll(block.rich_text)
        block_type == block.type
    IN  CASE block_type = "heading_1" -> "\n# " \o text_content \o "\n"
          [] block_type = "heading_2" -> "\n## " \o text_content \o "\n"
          [] block_type = "heading_3" -> "\n### " \o text_content \o "\n"
          [] block_type = "paragraph" -> text_content \o "\n"
          [] block_type = "bulleted_list_item" -> BulletGlyph \o " " \o text_content \o "\n"
          [] block_type = "numbered_list_item" -> "1. " \o text_content \o "\n"
          [] block_type = "to_do" ->
                (IF block.checked THEN CheckedGlyph ELSE UncheckedGlyph) \o " " \o text_content \o "\n"
          [] block_type = "quote" -> "> " \o text_content \o "\n"
          [] block_type = "code" -> CodeFence \o block.language \o "\n" \o text_content \o "\n" \o CodeFence \o "\n"
          [] block_type = "divider" -> "\n---\n"
          [] OTHER -> text_content

\* '\n'.join(['  ' + line for line in child_text.split('\n')])
IndentChild(child_text) ==
    LET lines == Split(child_text, "\n")
    IN  Join("\n", [i \in 1..Len(lines) |-> "  " \o lines[i]])

\* the nested-block branch of get_page_content; a failed children fetch adds nothing
RenderChildren(block) ==
    IF block.has_children /\ block.children_ok
    THEN ConcatAll([i \in 1..Len(block.children) |->
                        IndentChild(extract_text_from_block(block.children[i]))])
    ELSE ""

\* the block loop of get_page_content
RenderBlocks(blocks) ==
    ConcatAll([i \in 1..Len(blocks) |-> extract_text_from_block(blocks[i]) \o RenderChildren(blocks[i])])

\* s[i..] matches \n\s*\n\s*\n with the first \s* taking a and the second b characters
MatchesAt(s, i, a, b) ==
    /\ i + a + b + 2 <= Len(s)
    /\ Char(s, i) = "\n"
    /\ AllSpace(s, i + 1, i + a)
    /\ Char(s, i + a + 1) = "\n"
    /\ AllSpace(s, i + a + 2, i + a + b + 1)
    /\ Char(s, i + a + b + 2) = "\n"

RECURSIVE SpaceRun(_, _)
\* length of the longest run of whitespace starting at position i
SpaceRun(s, i) == IF i <= Len(s) /\ IsSpace(Char(s, i)) THEN 1 + SpaceRun(s, i + 1) ELSE 0

\* the pairs (a, b) for which the pattern matches at i; neither \s* can reach
\* beyond the whitespace that follows position i
MatchPairs(s, i) ==
    IF Char(s, i) # "\n" THEN {}
    ELSE LET w == SpaceRun(s, i + 1)
         IN  {ab \in (0..w) \X (0..w) : MatchesAt(s, i, ab[1], ab[2])}

\* last position of the match the regex engine takes at i: both \s* are greedy,
\* the first one first
MatchEnd(s, i) ==
    LET P == MatchPairs(s, i)
        a == Max({ab[1] : ab \in P})
        b == Max({ab[2] : ab \in {q \in P : q[1] = a}})
    IN  i + a + b + 2

RECURSIVE ReSubFrom(_, _)
\* the scan of re.sub from position i: a match can only start at a newline
ReSubFrom(s, i) ==
    LET j == NextOcc(s, "\n", i)
    IN  IF j = 0 THEN SubSeq(s, i, Len(s))
        ELSE IF MatchPairs(s, j) # {}
             THEN SubSeq(s, i, j - 1) \o "\n\n" \o ReSubFrom(s, MatchEnd(s, j) + 1)
             ELSE SubSeq(s, i, j) \o ReSubFrom(s, j + 1)

\* a collapse that only sees newlines with nothing between them
CollapseAdjacentOnly(content) == Replace(content, "\n\n\n", "\n\n")

\* re.sub(r'\n\s*\n\s*\n', '\n\n', content): leftmost non-overlapping matches
CollapseBlankLines(content) == ReSubFrom(content, 1)

None == [none |-> TRUE]

\* get_page_content: None when a provider call raises
get_page_content(title, blocks, fetch_ok) ==
    IF ~fetch_ok THEN None
    ELSE LET content == Strip(CollapseBlankLines("# " \o title \o "\n\n" \o RenderBlocks(blocks)))
         IN  [title |-> title, content |-> content, char_count |-> Len(content)]

------------------------------------------------------------------------------
(* mainv2.py / streamlit_notion_chatbot.py: owner key and prompt composition *)

UpperLetters == "ABCDEFGHIJKLMNOPQRSTUVWXYZ"

LowerLetters == "abcdefghijklmnopqrstuvwxyz"

LowerChar(c) ==
    IF \E i \in 1..Len(UpperLetters) : Char(UpperLetters, i) = c
    THEN Char(LowerLetters, CHOOSE i \in 1..Len(UpperLetters) : Char(UpperLetters, i) = c)
    ELSE c

\* str.lower on ASCII text
Lower(s) == ConcatAll([i \in 1..Len(s) |-> LowerChar(Char(s, i))])

\* f"user_{user_name.lower().replace(' ', '_')}"
OwnerKey(name) == "user_" \o Replace(Lower(name), " ", "_")

\* user_id before a name is accepted (Python None)
NoUserId == "<None>"

\* the owner key the CLI derives: the input is stripped first, an empty name is refused
CliUserId(entered) ==
    LET name == Strip(entered)
    IN  IF name # "" THEN OwnerKey(name) ELSE NoUserId

\* the owner key the browser front end derives from the text field as entered
StreamlitUserId(entered) == IF entered # "" THEN OwnerKey(entered) ELSE NoUserId

Sentinel == "Notion Knowledge Base Content:"

\* a value of the "memory" field: isstr is isinstance(mem, str), text is str(mem)
StrValue(t) == [isstr |-> TRUE, text |-> t]

MemoryRecord(owner, t) == [user_id |-> owner, memory |-> StrValue(t)]

\* what memory.search does: it returns records or raises
Returned(results) == [ok |-> TRUE, results |-> results]

SearchRaised == [ok |-> FALSE, results |-> <<>>]

RECURSIVE OwnTruthy(_, _)
\* the loop of get_relevant_memories: records of the owner with a non-empty memory
OwnTruthy(memories, owner) ==
    IF memories = <<>> THEN <<>>
    ELSE LET memory == Head(memories)
             rest == OwnTruthy(Tail(memories), owner)
         IN  IF memory.user_id = owner /\ memory.memory.text # ""
             THEN <<memory.memory>> \o rest
             ELSE rest

\* a get_relevant_memories that keeps the records of every owner
GetRelevantAnyOwner(searched, owner) ==
    IF ~searched.ok THEN <<>>
    ELSE LET truthy == SelectSeq(searched.results, LAMBDA m : m.memory.text # "")
         IN  [i \in 1..Len(truthy) |-> truthy[i].memory]

\* get_relevant_memories: a failed search yields the empty list
get_relevant_memories(searched, owner) ==
    IF ~searched.ok THEN <<>> ELSE OwnTruthy(searched.results, owner)

\* a filter loop that runs on the first three memories only
CliFilteredAfterCut(memories) ==
    LET cut == SubSeq(memories, 1, IF Len(memories) < 3 THEN Len(memories) ELSE 3)
        kept == SelectSeq(cut, LAMBDA mem : ~StartsWith(mem.text, Sentinel))
    IN  [i \in 1..Len(kept) |-> kept[i].text]

\* a filter loop that keeps every memory
CliUnfiltered(memories) == [i \in 1..Len(memories) |-> memories[i].text]

RECURSIVE CliFiltered(_)
\* the filter loop of NotionGroqChatbot.generate_response
CliFiltered(memories) ==
    IF memories = <<>> THEN <<>>
    ELSE LET mem == Head(memories)
             rest == CliFiltered(Tail(memories))
         IN  IF mem.isstr /\ ~StartsWith(mem.text, Sentinel) THEN <<mem.text>> \o rest
             ELSE IF ~mem.isstr /\ ~StartsWith(mem.text, Sentinel) THEN <<mem.text>> \o rest
             ELSE rest

RECURSIVE StreamlitFiltered(_)
\* the filter loop of StreamlitNotionChatbot.generate_response
StreamlitFiltered(memories) ==
    IF memories = <<>> THEN <<>>
    ELSE LET mem == Head(memories)
             rest == StreamlitFiltered(Tail(memories))
         IN  IF mem.isstr /\ ~StartsWith(mem.text, Sentinel) THEN <<mem.text>> \o rest
             ELSE rest

\* seq[:n]
FirstN(seq, n) == SubSeq(seq, 1, IF Len(seq) < n THEN Len(seq) ELSE n)

ContextHeading == "Previous conversation context:\n"

\* a context that is headed even when no memory was selected
ContextAlwaysHeaded(filtered_memories) ==
    ContextHeading \o Join("\n", FirstN(filtered_memories, ContextMemories)) \o "\n\n"

\* context of generate_response
Context(filtered_memories) ==
    IF filtered_memories # <<>>
    THEN ContextHeading \o Join("\n", FirstN(filtered_memories, ContextMemories)) \o "\n\n"
    ELSE ""

\* a preview that also cuts a content of exactly the budget
NotionPreviewInclusive(content) ==
    IF Len(content) >= PreviewBudget THEN SubSeq(content, 1, PreviewBudget) \o "..." ELSE content

\* notion_preview of generate_response
NotionPreview(content) ==
    IF Len(content) > PreviewBudget THEN SubSeq(content, 1, PreviewBudget) \o "..." ELSE content

NotionHeading ==
    "Notion Knowledge Base (use this to answer questions about the user's Notion content):\n"

\* notion_context of NotionGroqChatbot.generate_response
CliNotionContext(loaded, content) ==
    IF loaded /\ content # "" THEN NotionHeading \o NotionPreview(content) \o "\n\n" ELSE ""

\* notion_context of StreamlitNotionChatbot.generate_response
StreamlitNotionContext(content) ==
    IF content # "" THEN NotionHeading \o NotionPreview(content) \o "\n\n" ELSE ""

PromptIntro ==
    "You are a helpful AI assistant with access to the user's Notion workspace content. "
    \o "Use the following information to provide relevant and personalized responses.\n\n"

PromptInstructions ==
    "Instructions:\n"
    \o "- Answer questions using information from the Notion content when relevant\n"
    \o "- Reference specific pages, databases, or entries when applicable\n"
    \o "- If asked about something not in the Notion content, use your general knowledge\n"
    \o "- Be conversational and helpful\n"
    \o "- Remember previous conversations for context\n\n"
    \o "Current conversation:"

\* system_prompt of generate_response
SystemPrompt(notion_part, memory_part) == PromptIntro \o notion_part \o memory_part \o PromptInstructions

Message(role, content) == [role |-> role, content |-> content]

\* the text generate_response returns when the completion call raises
ErrorReply(f) ==
    IF f = "cli" THEN " Error generating response: boom"
    ELSE "<U+274C> Error generating response: boom"

\* what chat.completions.create does: it returns a completion or raises
Completed(content) == [ok |-> TRUE, content |-> content]

CompletionRaised == [ok |-> FALSE, content |-> ""]

\* a generate_response without its except clause: nothing is returned
ReplyUncaught(f, completion) == completion.content

\* what generate_response returns: the content of the completion, or the
\* error text of its except clause
Reply(f, completion) == IF completion.ok THEN completion.content ELSE ErrorReply(f)

------------------------------------------------------------------------------
(* notion_databases.py: database flattener *)

Digits == "0123456789"

RECURSIVE NatToStr(_)
NatToStr(n) == IF n < 10 THEN Char(Digits, n + 1) ELSE NatToStr(n \div 10) \o Char(Digits, (n % 10) + 1)

\* str() of an int
IntToStr(n) == IF n < 0 THEN "-" \o NatToStr(-n) ELSE NatToStr(n)

\* a property of a page as the provider returns it: text is the plain_text,
\* the select name or the date start ("" when the provider holds none), items
\* the multi_select names, number the number (null when it holds none)
Property(name, type, text, items, checked, number, null) ==
    [name |-> name, type |-> type, text |-> text, items |-> items, checked |-> checked,
     number |-> number, null |-> null]

TextValue(t) == [islist |-> FALSE, text |-> t, items |-> <<>>]

ListValue(items) == [islist |-> TRUE, text |-> "", items |-> items]

\* an extraction that leaves an empty value empty
PropertyValueNoDefault(prop) ==
    CASE prop.type \in {"title", "rich_text", "select", "date"} -> TextValue(prop.text)
      [] prop.type = "number" -> TextValue(IF prop.null THEN "None" ELSE IntToStr(prop.number))
      [] prop.type = "multi_select" -> ListValue(prop.items)
      [] prop.type = "checkbox" -> TextValue(IF prop.checked THEN "True" ELSE "False")
      [] OTHER -> TextValue("")

\* the value get_database_content stores for a property; a checkbox is stored
\* as a bool and reaches the text through the f-string of the formatter
PropertyValue(prop) ==
    CASE prop.type = "title" /\ prop.text # "" -> TextValue(prop.text)
      [] prop.type = "rich_text" /\ prop.text # "" -> TextValue(prop.text)
      [] prop.type = "number" -> TextValue(IF prop.null THEN "None" ELSE IntToStr(prop.number))
      [] prop.type = "select" /\ prop.text # "" -> TextValue(prop.text)
      [] prop.type = "multi_select" -> ListValue(prop.items)
      [] prop.type = "date" /\ prop.text # "" -> TextValue(prop.text)
      [] prop.type = "checkbox" -> TextValue(IF prop.checked THEN "True" ELSE "False")
      [] OTHER -> TextValue("N/A")

\* the entry built for one page: its own properties, in the order the page holds them
EntryOf(page) == [i \in 1..Len(page) |-> [name |-> page[i].name, value |-> PropertyValue(page[i])]]

\* get_database_content: None when a provider call raises, and when the title
\* list of the database is empty ([0] raises IndexError inside the try)
get_database_content(db, pages, fetch_ok) ==
    IF ~fetch_ok \/ Len(db.title) = 0 THEN None
    ELSE [title |-> db.title[1],
          properties |-> [i \in 1..Len(db.properties) |->
                             [name |-> db.properties[i].name, type |-> db.properties[i].type]],
          entries |-> [k \in 1..Len(pages) |-> EntryOf(pages[k])]]

\* position of a property name in a schema, 0 when the schema lacks it
SchemaIndex(properties, name) ==
    IF \E i \in 1..Len(properties) : properties[i].name = name
    THEN CHOOSE i \in 1..Len(properties) : properties[i].name = name
    ELSE 0

\* f"{prop_name}: {value}\n" with a list joined by ", "
EntryLine(item) ==
    item.name \o ": " \o (IF item.value.islist THEN Join(", ", item.value.items) ELSE item.value.text) \o "\n"

\* an entry written in the order of the schema, "N/A" for a property it lacks
FormatEntryBySchema(content, entry) ==
    Repeat("-", EntryRuleWidth) \o "\n"
    \o ConcatAll([i \in 1..Len(content.properties) |->
                     LET k == SchemaIndex(entry, content.properties[i].name)
                     IN  IF k = 0
                         THEN content.properties[i].name \o ": N/A\n"
                         ELSE EntryLine(entry[k])])
    \o "\n"

\* the entry loop body of format_database_content: the lines follow entry.items()
FormatEntry(content, entry) ==
    Repeat("-", EntryRuleWidth) \o "\n"
    \o ConcatAll([i \in 1..Len(entry) |-> EntryLine(entry[i])])
    \o "\n"

NoDatabaseContent == "No database content available."

format_database_content(content) ==
    IF content = None THEN NoDatabaseContent
    ELSE "Database: " \o content.title \o "\n"
         \o Repeat("=", BannerWidth) \o "\n\n"
         \o "Properties:\n"
         \o ConcatAll([i \in 1..Len(content.properties) |->
                          "- " \o content.properties[i].name \o " (" \o content.properties[i].type \o ")\n"])
         \o "\n"
         \o "Entries:\n"
         \o ConcatAll([k \in 1..Len(content.entries) |-> FormatEntry(content, content.entries[k])])

\* get_all_databases_content over the databases of the workspace: each is a
\* record of what databases.retrieve and databases.query return for it
get_all_databases_content(databases) ==
    ConcatAll([i \in 1..Len(databases) |->
                  LET content == get_database_content(databases[i].database,
                                                      databases[i].query_results,
                                                      databases[i].fetch_ok)
                  IN  IF content = None THEN ""
                      ELSE "\n" \o Repeat("=", BannerWidth) \o "\n"
                           \o format_database_content(content) \o "\n\n"])

------------------------------------------------------------------------------
(* mainv2.py, streamlit_notion_chatbot.py: loading and aggregating content *)

\* how a call of get_page_content from the page loop can end: a content_data,
\* None (the provider raised inside get_page_content), or an exception that
\* reaches the except of the loop
PageOutcomes == {"ok", "none", "raises"}

\* the section the page loop appends for a content_data
PageSection(data) ==
    "\n" \o Repeat("=", BannerWidth) \o "\n"
    \o "PAGE: " \o data.title \o "\n"
    \o Repeat("=", BannerWidth) \o "\n"
    \o data.content \o "\n\n"

\* page_content after the loop body ran on a page with the given outcome
AppendPage(so_far, page, outcome) ==
    IF outcome = "raises" THEN so_far
    ELSE LET data == get_page_content(page.title, page.blocks, outcome = "ok")
         IN  IF data = None THEN so_far ELSE so_far \o PageSection(data)

\* a page loop that gives up at the first page that fails
AfterPageAbort(i, outcome, n) == IF outcome = "ok" THEN i + 1 ELSE n + 1

\* the position of the page loop after page i: the try/except of the loop
\* body takes every outcome to the next page
AfterPage(i, outcome, n) == i + 1

\* a combination that writes both banners, also over an empty section
AggregateBothBanners(databases_text, pages_text) ==
    "NOTION DATABASES:\n" \o Repeat("=", BannerWidth) \o "\n" \o databases_text \o "\n\n"
    \o "NOTION PAGES:\n" \o Repeat("=", BannerWidth) \o "\n" \o pages_text

\* "Combine all selected content"
Aggregate(databases_text, pages_text) ==
    (IF databases_text # ""
     THEN "NOTION DATABASES:\n" \o Repeat("=", BannerWidth) \o "\n" \o databases_text \o "\n\n"
     ELSE "")
    \o (IF pages_text # ""
        THEN "NOTION PAGES:\n" \o Repeat("=", BannerWidth) \o "\n" \o pages_text
        ELSE "")

\* the counts of the content summary
ContentSummary(content) ==
    [shown |-> TRUE,
     db_count |-> IF Contains(content, "NOTION DATABASES:") THEN 1 ELSE 0,
     page_count |-> IF Contains(content, "NOTION PAGES:") THEN Count(content, "PAGE: ") ELSE 0,
     characters |-> Len(content)]

------------------------------------------------------------------------------
(* Inputs of the page flattener *)

H1Block == Leaf("heading_1", <<"Title">>)

ParagraphBlock == Leaf("paragraph", <<"Hello">>)

DividerBlock == Leaf("divider", <<>>)

BulletBlock == Leaf("bulleted_list_item", <<"Item A">>)

EmptyParagraph == Leaf("paragraph", <<>>)

\* two text runs with blank and whitespace-only lines inside
BlankLinesParagraph == Leaf("paragraph", <<"a\n \n", "\t\nb">>)

ParentBlock ==
    Block("bulleted_list_item", <<"Top">>, "", FALSE, TRUE,
          <<Leaf("heading_1", <<"Sub">>), Leaf("paragraph", <<"kid">>)>>, TRUE)

\* blocks that are combined freely into pages
CoreBlocks == {H1Block, ParagraphBlock, DividerBlock, BulletBlock, EmptyParagraph}

\* the remaining block kinds and shapes, combined into short pages
OtherBlocks ==
    {BlankLinesParagraph, ParentBlock,
     Leaf("heading_2", <<"Two">>), Leaf("heading_3", <<"Three">>),
     Leaf("numbered_list_item", <<"First">>), Leaf("quote", <<"Said">>),
     Block("to_do", <<"Task">>, "", TRUE, FALSE, <<>>, TRUE),
     Block("to_do", <<"Task">>, "", FALSE, FALSE, <<>>, TRUE),
     Block("code", <<"x = 1">>, "python", FALSE, FALSE, <<>>, TRUE),
     Block("code", <<>>, "", FALSE, FALSE, <<>>, TRUE),
     Leaf("callout", <<"Note">>), Leaf("image", <<>>), Leaf("toggle", <<"More ", "text">>),
     Block("paragraph", <<"Top">>, "", FALSE, TRUE, <<Leaf("divider", <<>>)>>, FALSE),
     Block("heading_1", <<"Top">>, "", FALSE, TRUE,
           <<Leaf("divider", <<>>), Leaf("paragraph", <<>>), Leaf("heading_2", <<"Deep">>)>>, TRUE)}

PageTitles == {"Page", " T\n\n"}

FlattenInputs ==
    SeqsUpTo(CoreBlocks, MaxBlocks) \cup SeqsUpTo(CoreBlocks \cup OtherBlocks, MaxMixedBlocks)

------------------------------------------------------------------------------
(* Specification of the page flattener: one page is fetched and flattened *)

\* the page flattener at rest
IdleFlatten ==
    /\ page_title = ""
    /\ page_blocks = <<>>
    /\ page_fetch_ok = TRUE
    /\ content_data = None
    /\ block_texts = <<>>

\* a chat session before a turn
NoTurn ==
    /\ user_message = ""
    /\ search_result = SearchRaised
    /\ relevant_memories = <<>>
    /\ context = ""
    /\ notion_context = ""
    /\ system_prompt = ""
    /\ groq_messages = <<>>
    /\ chat_completion = CompletionRaised
    /\ calls = <<>>
    /\ response = ""
    /\ memory_added = <<>>

\* the chat session at rest
IdleChat ==
    /\ front = "cli"
    /\ user_name = ""
    /\ user_id = NoUserId
    /\ notion_content = ""
    /\ notion_loaded = FALSE
    /\ store = <<>>
    /\ NoTurn

\* the database flattener at rest
IdleDb ==
    /\ database = [title |-> <<>>, properties |-> <<>>]
    /\ query_results = <<>>
    /\ db_fetch_ok = TRUE
    /\ db_content = None
    /\ formatted = ""

NoSummary == [shown |-> FALSE, db_count |-> 0, page_count |-> 0, characters |-> 0]

\* no load under way
IdleLoad ==
    /\ selected_databases = FALSE
    /\ workspace_databases = [ok |-> TRUE, databases |-> <<>>]
    /\ selected_pages = <<>>
    /\ database_content = ""
    /\ page_content = ""
    /\ page_index = 1
    /\ fetched = <<>>
    /\ page_outcomes = <<>>
    /\ summary = NoSummary

\* no command handled yet
IdleSession ==
    /\ command_count = 0
    /\ command = "none"
    /\ delete_ok = FALSE
    /\ store_before = <<>>
    /\ content_before = ""

\* no page listed and nothing answered
IdleSelect ==
    /\ page_selection = ""
    /\ listed_pages = <<>>

\* no line read yet
IdleLoop ==
    /\ user_input = ""
    /\ input_left = 0
    /\ loop_errors = 0

\* the three keys are set and the chatbot is constructed
IdleStartup ==
    /\ env = [GROQ_API_KEY |-> TRUE, MEM0_API_KEY |-> TRUE, NOTION_TOKEN |-> TRUE]
    /\ chatbot = TRUE

\* nothing displayed yet
IdleMemory ==
    /\ get_all_result = [ok |-> TRUE, results |-> <<>>]
    /\ displayed = <<>>

InitFlatten ==
    /\ pc = "page_selected"
    /\ page_title \in PageTitles
    /\ page_blocks \in FlattenInputs
    /\ page_fetch_ok = TRUE
    /\ content_data = None
    /\ block_texts = <<>>
    /\ IdleChat
    /\ IdleDb
    /\ IdleLoad
    /\ IdleSession
    /\ IdleMemory
    /\ IdleStartup
    /\ IdleLoop
    /\ IdleSelect

\* get_page_content(page_id) on the selected page; the provider calls succeed or raise
GetPageContent ==
    /\ pc = "page_selected"
    /\ \E ok \in BOOLEAN :
          /\ page_fetch_ok' = ok
          /\ content_data' = get_page_content(page_title, page_blocks, ok)
          /\ block_texts' = IF ok
                            THEN [i \in 1..Len(page_blocks) |-> extract_text_from_block(page_blocks[i])]
                            ELSE <<>>
    /\ pc' = "page_returned"
    /\ UNCHANGED <<page_title, page_blocks, chatVars, dbVars, memoryVars, sessionVars, loadVars, startVars, loopVars, selectVars>>

NextFlatten == GetPageContent

SpecFlatten == InitFlatten /\ [][NextFlatten]_vars

------------------------------------------------------------------------------
(* Claims about the page flattener *)

\* the text get_page_content builds before it collapses and strips it
RawPageText == "# " \o page_title \o "\n\n" \o RenderBlocks(page_blocks)

\* C8: the flattened page text returned by get_page_content never contains 3
\* or more consecutive newline characters, whatever the title, the blocks and
\* their children are.
C8_NoTripleNewline ==
    (pc = "page_returned" /\ content_data # None) => ~Contains(content_data.content, "\n\n\n")

\* a page whose raw text had a run of 3 or more newlines (or newlines with only
\* whitespace between them) has been flattened
C8_Witness ==
    /\ pc = "page_returned"
    /\ content_data # None
    /\ Contains(RawPageText, "\n\n\n")
    /\ Contains(RawPageText, "\n  \n")

RecognizedTypes ==
    {"heading_1", "heading_2", "heading_3", "paragraph", "bulleted_list_item",
     "numbered_list_item", "to_do", "quote", "code", "divider"}

PageRendered == pc = "page_returned" /\ page_fetch_ok

\* C11 as the claim states it: a block of an unrecognized type is rendered as
\* the empty string, also when it carries inline text runs.
C11_AsStated ==
    PageRendered =>
        \A i \in 1..Len(page_blocks) :
            page_blocks[i].type \notin RecognizedTypes => block_texts[i] = ""

\* C11, amended: a block of an unrecognized type is rendered as its inline
\* text runs concatenated, with no prefix and no newline added; the result is
\* the empty string exactly when the block carries no text.
C11_UnrecognizedKeepsText ==
    PageRendered =>
        \A i \in 1..Len(page_blocks) :
            page_blocks[i].type \notin RecognizedTypes
                => /\ block_texts[i] = Join("", page_blocks[i].rich_text)
                   /\ (block_texts[i] = "") = (\A r \in 1..Len(page_blocks[i].rich_text) :
                                                  page_blocks[i].rich_text[r] = "")

\* an unrecognized block with text runs and one without have been rendered
C11_Witness ==
    /\ PageRendered
    /\ Len(page_blocks) = 2
    /\ page_blocks[1].type = "toggle" /\ block_texts[1] = "More text"
    /\ page_blocks[2].type = "image" /\ block_texts[2] = ""

\* a text with two spaces in front of each of its lines, a line ending with
\* its newline
PrefixedLines(text) ==
    LET lines == Split(text, "\n")
        n == IF lines[Len(lines)] = "" THEN Len(lines) - 1 ELSE Len(lines)
    IN  ConcatAll([i \in 1..n |->
                      "  " \o lines[i] \o (IF i < Len(lines) THEN "\n" ELSE "")])

\* the text of a block followed by its children, each child with its lines
\* prefixed and nothing else
BlockWithPrefixedChildren(block) ==
    extract_text_from_block(block)
    \o (IF block.has_children /\ block.children_ok
        THEN ConcatAll([i \in 1..Len(block.children) |->
                           PrefixedLines(extract_text_from_block(block.children[i]))])
        ELSE "")

\* C19 as the claim states it: the children of a block are rendered with two
\* spaces in front of every line and appended after the text of the parent,
\* and the indentation touches the lines of the children only, so that the
\* blocks that follow are rendered as they are without the children.
C19_AsStated ==
    PageRendered =>
        content_data.content =
            Strip(CollapseBlankLines(
                "# " \o page_title \o "\n\n"
                \o ConcatAll([i \in 1..Len(page_blocks) |->
                                  BlockWithPrefixedChildren(page_blocks[i])])))

ScenarioBlocks == <<H1Block, ParagraphBlock, DividerBlock, BulletBlock>>

ScenarioFlattened == pc = "page_returned" /\ content_data # None /\ page_title = "Page" /\ page_blocks = ScenarioBlocks

------------------------------------------------------------------------------
(* Inputs of a chat turn *)

EnteredNames == {" Ada Lovelace ", "Bob", "", "  "}

OtherOwner == "user_someone_else"

SnapshotMemory == Sentinel \o "\nNOTION PAGES:\nPAGE: Home"

\* the records a search may return for an owner: two conversation memories, a
\* content snapshot, and a record of another owner
SearchRecords(owner) ==
    {MemoryRecord(owner, "Likes green tea"), MemoryRecord(owner, "Lives in Paris"),
     MemoryRecord(owner, SnapshotMemory), MemoryRecord(OtherOwner, "Owns a boat")}

SearchOutcomes(owner) ==
    {SearchRaised} \cup {Returned(r) : r \in SeqsUpTo(SearchRecords(owner), SearchLimit)}

\* a text of n characters that starts like an aggregated content
ContentOfLength(n) == SubSeq("NOTION PAGES:\n" \o Repeat("0123456789", n \div 10 + 1), 1, n)

\* a content whose page holds the words of the context heading
HeadingContent == "NOTION PAGES:\nPAGE: Home\n# Home\n\nPrevious conversation context: none"

LoadedContents ==
    {ContentOfLength(n) : n \in {0, 14, PreviewBudget, PreviewBudget + 1}} \cup {HeadingContent}

UserMessages == {"What is on my home page?"}

------------------------------------------------------------------------------
(* Specification of a chat turn: the owner key is derived, then one call of *)
(* generate_response                                                        *)

InitChat ==
    /\ pc = "start"
    /\ front \in {"cli", "streamlit"}
    /\ user_name = ""
    /\ user_id = NoUserId
    /\ notion_content \in LoadedContents
    /\ notion_loaded \in (IF front = "cli" THEN BOOLEAN ELSE {FALSE})
    /\ store = <<>>
    /\ NoTurn
    /\ IdleFlatten
    /\ IdleDb
    /\ IdleLoad
    /\ IdleSession
    /\ IdleMemory
    /\ IdleStartup
    /\ IdleLoop
    /\ IdleSelect

\* NotionGroqChatbot.get_user_info: one pass of its loop
CliGetUserInfo ==
    /\ pc = "start"
    /\ front = "cli"
    /\ \E entered \in EnteredNames :
          /\ user_name' = entered
          /\ user_id' = CliUserId(entered)
          /\ pc' = IF CliUserId(entered) # NoUserId THEN "ready" ELSE "start"
    /\ UNCHANGED <<front, notion_content, notion_loaded, user_message, search_result,
                   relevant_memories, context, notion_context, system_prompt, groq_messages, chat_completion, calls,
                   response, memory_added, store>>
    /\ UNCHANGED <<flattenVars, dbVars, memoryVars, sessionVars, loadVars, startVars, loopVars, selectVars>>

\* main of streamlit_notion_chatbot.py: the name field of the sidebar
StreamlitUserName ==
    /\ pc = "start"
    /\ front = "streamlit"
    /\ \E entered \in EnteredNames :
          /\ user_name' = entered
          /\ user_id' = StreamlitUserId(entered)
          /\ pc' = IF StreamlitUserId(entered) # NoUserId THEN "ready" ELSE "start"
    /\ UNCHANGED <<front, notion_content, notion_loaded, user_message, search_result,
                   relevant_memories, context, notion_context, system_prompt, groq_messages, chat_completion, calls,
                   response, memory_added, store>>
    /\ UNCHANGED <<flattenVars, dbVars, memoryVars, sessionVars, loadVars, startVars, loopVars, selectVars>>

\* a turn that calls add_to_memory whether or not the completion call returned
TurnCallsAddAlways(completion_ok) == <<"search", "completion", "add">>

\* the collaborator calls of generate_response, in the order of its statements:
\* a completion call that raises leaves the try block before add_to_memory
TurnCalls(completion_ok) ==
    <<"search", "completion">> \o (IF completion_ok THEN <<"add">> ELSE <<>>)

\* the body of generate_response after the filter: prompt, completion call, add_to_memory
Respond(message, searched, notion_part, filtered_memories, completion_ok, add_ok) ==
    LET prompt == SystemPrompt(notion_part, Context(filtered_memories))
        messages == <<Message("system", prompt), Message("user", message)>>
        completion == IF completion_ok THEN Completed("A reply") ELSE CompletionRaised
        conversation == <<Message("user", message), Message("assistant", Reply(front, completion))>>
        turn_calls == TurnCalls(completion_ok)
        add_called == \E i \in 1..Len(turn_calls) : turn_calls[i] = "add"
    IN  /\ user_message' = message
        /\ search_result' = searched
        /\ relevant_memories' = get_relevant_memories(searched, user_id)
        /\ context' = Context(filtered_memories)
        /\ notion_context' = notion_part
        /\ system_prompt' = prompt
        /\ groq_messages' = messages
        /\ chat_completion' = completion
        /\ calls' = turn_calls
        /\ response' = Reply(front, completion)
        /\ memory_added' =
              IF add_called
              THEN Append(memory_added, [user_id |-> user_id, messages |-> conversation, ok |-> add_ok])
              ELSE memory_added
        /\ store' =
              IF add_called /\ add_ok
              THEN Append(store, [user_id |-> user_id, messages |-> conversation])
              ELSE store
        /\ pc' = "responded"
        /\ UNCHANGED <<front, user_name, user_id, notion_content, notion_loaded>>
        /\ UNCHANGED <<flattenVars, dbVars, memoryVars, sessionVars, loadVars, startVars, loopVars, selectVars>>

\* NotionGroqChatbot.generate_response
CliGenerateResponse ==
    /\ pc = "ready"
    /\ front = "cli"
    /\ \E message \in UserMessages, searched \in SearchOutcomes(user_id),
          completion_ok \in BOOLEAN, add_ok \in BOOLEAN :
          Respond(message, searched, CliNotionContext(notion_loaded, notion_content),
                  CliFiltered(get_relevant_memories(searched, user_id)), completion_ok, add_ok)

\* StreamlitNotionChatbot.generate_response
StreamlitGenerateResponse ==
    /\ pc = "ready"
    /\ front = "streamlit"
    /\ \E message \in UserMessages, searched \in SearchOutcomes(user_id),
          completion_ok \in BOOLEAN, add_ok \in BOOLEAN :
          Respond(message, searched, StreamlitNotionContext(notion_content),
                  StreamlitFiltered(get_relevant_memories(searched, user_id)), completion_ok, add_ok)

NextChat ==
    \/ CliGetUserInfo
    \/ StreamlitUserName
    \/ CliGenerateResponse
    \/ StreamlitGenerateResponse

SpecChat == InitChat /\ [][NextChat]_vars

------------------------------------------------------------------------------
(* Claims about a chat turn *)

EndsWith(s, suffix) == Len(s) >= Len(suffix) /\ SubSeq(s, Len(s) - Len(suffix) + 1, Len(s)) = suffix

IsSnapshot(mem) == StartsWith(mem.text, Sentinel)

NotSnapshot(mem) == ~IsSnapshot(mem)

\* the prompt sent to the completion provider is the template around the
\* content part and the memory part
PromptSent ==
    /\ system_prompt = PromptIntro \o notion_context \o context \o PromptInstructions
    /\ groq_messages[1] = Message("system", system_prompt)

\* C1: whatever the memory-store search returned, the system prompt built by
\* generate_response (CLI and Streamlit) holds no memory that starts with
\* "Notion Knowledge Base Content:": the sentinel occurs nowhere in the memory
\* part of the prompt.
C1_NoSnapshotInPrompt == pc = "responded" => (PromptSent /\ ~Contains(context, Sentinel))

\* a snapshot was retrieved first, a conversation memory after it, and the
\* prompt carries a conversation context
C1_Witness ==
    /\ pc = "responded"
    /\ Len(relevant_memories) >= 2
    /\ IsSnapshot(relevant_memories[1])
    /\ StartsWith(context, ContextHeading)

\* the retrieved memories that are no snapshots, in retrieval order
Survivors == SelectSeq(relevant_memories, NotSnapshot)

\* C2: the memories placed in the prompt are exactly the first min(3, n) of the
\* n retrieved memories that survive the snapshot filter, in retrieval order,
\* joined by newlines under the context heading; with no survivor the prompt
\* has no memory part.
C2_FirstThreeSurvivors ==
    pc = "responded" =>
        LET n == Len(Survivors)
            chosen == [i \in 1..(IF n < 3 THEN n ELSE 3) |-> Survivors[i].text]
        IN  /\ PromptSent
            /\ context = IF n = 0 THEN "" ELSE ContextHeading \o Join("\n", chosen) \o "\n\n"

\* a snapshot came first and four other memories of the owner followed it
C2_Witness ==
    /\ pc = "responded"
    /\ Len(relevant_memories) = 5
    /\ IsSnapshot(relevant_memories[1])
    /\ Len(Survivors) = 4
    /\ Survivors[3] # Survivors[4]

\* the prompt embeds the loaded content
ContentEmbedded == pc = "responded" /\ notion_context # ""

\* C3: when the content is embedded, the embedded text is the first 3000
\* characters followed by "..." if the content is longer than 3000 characters,
\* and the unmodified content otherwise (also at exactly 3000); it never
\* exceeds 3003 characters.
C3_PreviewTruncation ==
    ContentEmbedded =>
        LET embedded == IF Len(notion_content) > 3000
                        THEN SubSeq(notion_content, 1, 3000) \o "..."
                        ELSE notion_content
        IN  /\ PromptSent
            /\ Len(embedded) <= 3003
            /\ notion_context = NotionHeading \o embedded \o "\n\n"

\* a content of more than 3000 characters was embedded
C3_Witness == ContentEmbedded /\ Len(notion_content) > 3000 /\ EndsWith(notion_context, "...\n\n")

\* C18 as the claim states it: the system prompt contains the heading
\* "Previous conversation context:" if and only if at least one memory
\* survives the snapshot filter, and the heading is followed by the selected
\* memories joined by single newlines.
C18_AsStated ==
    pc = "responded" =>
        /\ Contains(system_prompt, "Previous conversation context:") <=> Survivors # <<>>
        /\ Survivors # <<>> =>
              Contains(system_prompt,
                       "Previous conversation context:\n"
                       \o Join("\n", [i \in 1..Min({3, Len(Survivors)}) |-> Survivors[i].text]))

\* C18, amended: the memory part of the system prompt, which stands between
\* the Notion part and the instructions, starts with the heading if and only
\* if at least one memory survives the snapshot filter, and is empty
\* otherwise; when present the heading is followed by the selected memories
\* joined by single newlines and by an empty line.
C18_HeadingIffSurvivor ==
    pc = "responded" =>
        LET selected == [i \in 1..Min({3, Len(Survivors)}) |-> Survivors[i].text]
        IN  /\ PromptSent
            /\ StartsWith(context, "Previous conversation context:") <=> Survivors # <<>>
            /\ Survivors = <<>> => context = ""
            /\ Survivors # <<>> =>
                  context = "Previous conversation context:\n" \o Join("\n", selected) \o "\n\n"

\* two memories survived and head the memory part, and the embedded Notion
\* content holds the words of the heading as well
C18_Witness ==
    /\ pc = "responded"
    /\ Len(Survivors) = 2
    /\ StartsWith(context, "Previous conversation context:\n" \o Survivors[1].text \o "\n")
    /\ Contains(notion_context, "Previous conversation context:")

\* C7 as stated: the owner key derived from the entered name " Ada Lovelace "
\* is "user_ada_lovelace" in both front ends.
C7_AsStated ==
    (pc \in {"ready", "responded"} /\ user_name = " Ada Lovelace ") => user_id = "user_ada_lovelace"

------------------------------------------------------------------------------
(* Inputs of the database flattener *)

NameProp == Property("Name", "title", "Task A", <<>>, FALSE, 0, TRUE)

TagsProp == Property("Tags", "multi_select", "", <<"x", "y">>, FALSE, 0, TRUE)

DoneProp == Property("Done", "checkbox", "", <<>>, TRUE, 0, TRUE)

\* a title property without text
EmptyNameProp == Property("Name", "title", "", <<>>, FALSE, 0, TRUE)

CountProp == Property("Count", "number", "", <<>>, FALSE, -12, FALSE)

NullCountProp == Property("Count", "number", "", <<>>, FALSE, 0, TRUE)

\* a property of a type get_database_content does not handle
LinkProp == Property("Link", "url", "https://x", <<>>, FALSE, 0, TRUE)

SchemaProperties ==
    <<[name |-> "Name", type |-> "title"], [name |-> "Tags", type |-> "multi_select"],
      [name |-> "Done", type |-> "checkbox"], [name |-> "Count", type |-> "number"],
      [name |-> "Link", type |-> "url"], [name |-> "Note", type |-> "rich_text"],
      [name |-> "Stage", type |-> "select"], [name |-> "Due", type |-> "date"]>>

Reversed(seq) == [i \in 1..Len(seq) |-> seq[Len(seq) + 1 - i]]

Databases ==
    {[title |-> <<"Tasks">>, properties |-> SchemaProperties],
     [title |-> <<"Tasks", " 2">>, properties |-> Reversed(SchemaProperties)],
     [title |-> <<>>, properties |-> SchemaProperties]}

\* every subset of two properties in every key order
OrderedRecords ==
    {page \in SeqsUpTo({NameProp, TagsProp}, 2) :
        \A i, j \in 1..Len(page) : i # j => page[i] # page[j]}

OtherRecords ==
    {<<EmptyNameProp, TagsProp, DoneProp, CountProp, LinkProp>>,
     <<LinkProp, NullCountProp, DoneProp, NameProp>>,
     <<Property("Note", "rich_text", "", <<>>, FALSE, 0, TRUE),
       Property("Stage", "select", "Open", <<>>, FALSE, 0, TRUE),
       Property("Due", "date", "2024-01-31", <<>>, FALSE, 0, TRUE),
       Property("Tags", "multi_select", "", <<>>, FALSE, 0, TRUE),
       Property("Done", "checkbox", "", <<>>, FALSE, 0, TRUE)>>}

QueryResults == SeqsUpTo(OrderedRecords \cup OtherRecords, MaxEntries)

------------------------------------------------------------------------------
(* Specification of the database flattener: one database is extracted and *)
(* its content formatted                                                   *)

InitDb ==
    /\ pc = "db_selected"
    /\ database \in Databases
    /\ query_results \in QueryResults
    /\ db_fetch_ok = TRUE
    /\ db_content = None
    /\ formatted = ""
    /\ IdleFlatten
    /\ IdleChat
    /\ IdleLoad
    /\ IdleSession
    /\ IdleMemory
    /\ IdleStartup
    /\ IdleLoop
    /\ IdleSelect

\* get_database_content(db['id']); the provider calls succeed or raise
GetDatabaseContent ==
    /\ pc = "db_selected"
    /\ \E ok \in BOOLEAN :
          /\ db_fetch_ok' = ok
          /\ db_content' = get_database_content(database, query_results, ok)
    /\ pc' = "db_extracted"
    /\ UNCHANGED <<database, query_results, formatted, flattenVars, chatVars, loadVars,
                   sessionVars, memoryVars, startVars, loopVars, selectVars>>

\* the loop body of get_all_databases_content: a content that is not None is formatted
FormatDatabaseContent ==
    /\ pc = "db_extracted"
    /\ db_content # None
    /\ formatted' = format_database_content(db_content)
    /\ pc' = "db_formatted"
    /\ UNCHANGED <<database, query_results, db_fetch_ok, db_content, flattenVars, chatVars, loadVars,
                   sessionVars, memoryVars, startVars, loopVars, selectVars>>

NextDb ==
    \/ GetDatabaseContent
    \/ FormatDatabaseContent

SpecDb == InitDb /\ [][NextDb]_vars

------------------------------------------------------------------------------
(* Claims about the database flattener *)

\* the entry blocks read back from the formatted text: what follows
\* "Entries:", cut at the rule that opens every entry
EntryBlocks ==
    LET start == NextOcc(formatted, "\nEntries:\n", 1)
        body == SubSeq(formatted, start + 10, Len(formatted))
    IN  Tail(Split(body, "----------------------------------------\n"))

NonEmptyLine(line) == line # ""

\* the "name: value" lines of entry block k
EntryLines(k) == SelectSeq(Split(EntryBlocks[k], "\n"), NonEmptyLine)

LineName(line) == SubSeq(line, 1, NextOcc(line, ": ", 1) - 1)

\* the property names of entry block k, in the order of its lines
EntryLineNames(k) == [i \in 1..Len(EntryLines(k)) |-> LineName(EntryLines(k)[i])]

\* the property names of record k, in the key order of the record
RecordNames(k) == [i \in 1..Len(query_results[k]) |-> query_results[k][i].name]

InSchemaOrder(names) ==
    \A i, j \in 1..Len(names) :
        i < j => SchemaIndex(database.properties, names[i]) < SchemaIndex(database.properties, names[j])

\* C5 as the claim states it: the lines of every entry follow the order of the
\* database schema, whatever the key order of the record.
C5_AsStated ==
    pc = "db_formatted" => \A k \in 1..Len(EntryBlocks) : InSchemaOrder(EntryLineNames(k))

\* C5, amended: the formatted text has one entry block per record, and the
\* lines of every entry follow the key order of the record's own property
\* mapping, whatever the order of the database schema.
C5_RecordKeyOrder ==
    pc = "db_formatted" =>
        /\ Len(EntryBlocks) = Len(query_results)
        /\ \A k \in 1..Len(query_results) : EntryLineNames(k) = RecordNames(k)

\* a formatted record of several properties whose key order is not the schema's
C5_Witness ==
    /\ pc = "db_formatted"
    /\ \E k \in 1..Len(query_results) :
          /\ Len(query_results[k]) >= 2
          /\ ~InSchemaOrder(RecordNames(k))
          /\ EntryLineNames(k) = RecordNames(k)

\* the property of a record holds no value the extraction handles: an empty
\* title, rich_text, select or date, or a type outside the handled ones
NoValue(prop) ==
    \/ prop.type \in {"title", "rich_text", "select", "date"} /\ prop.text = ""
    \/ prop.type \notin {"title", "rich_text", "number", "select", "multi_select", "date", "checkbox"}

Lacks(k, name) == \A i \in 1..Len(query_results[k]) : query_results[k][i].name # name

HasLine(k, line) == \E i \in 1..Len(EntryLines(k)) : EntryLines(k)[i] = line

\* C10 as the claim states it: every entry block has one line per schema
\* property, and a property the record lacks is written with the value "N/A".
C10_AsStated ==
    pc = "db_formatted" =>
        /\ Len(EntryBlocks) = Len(query_results)
        /\ \A k \in 1..Len(query_results) :
              /\ Len(EntryLines(k)) = Len(database.properties)
              /\ \A p \in 1..Len(database.properties) :
                    Lacks(k, database.properties[p].name)
                        => HasLine(k, database.properties[p].name \o ": N/A")

\* C10, amended: every entry block has exactly one line per property the
\* record itself carries, so a schema property the record lacks gets no line;
\* the value "N/A" is written for a property the record carries without a
\* value the extraction handles.
C10_OneLinePerRecordProperty ==
    pc = "db_formatted" =>
        /\ Len(EntryBlocks) = Len(query_results)
        /\ \A k \in 1..Len(query_results) :
              LET lines == EntryLines(k)
              IN  /\ Len(lines) = Len(query_results[k])
                  /\ \A p \in 1..Len(database.properties) :
                        Lacks(k, database.properties[p].name)
                            => \A i \in 1..Len(lines) :
                                  ~StartsWith(lines[i], database.properties[p].name \o ": ")
                  /\ \A i \in 1..Len(query_results[k]) :
                        NoValue(query_results[k][i])
                            => lines[i] = query_results[k][i].name \o ": N/A"

\* a formatted record that lacks a schema property and carries one without a value
C10_Witness ==
    /\ pc = "db_formatted"
    /\ \E k \in 1..Len(query_results) :
          /\ \E p \in 1..Len(database.properties) : Lacks(k, database.properties[p].name)
          /\ \E i \in 1..Len(query_results[k]) :
                /\ NoValue(query_results[k][i])
                /\ HasLine(k, query_results[k][i].name \o ": N/A")
          /\ Len(EntryLines(k)) = Len(query_results[k])

------------------------------------------------------------------------------
(* Inputs of a load *)

HomePage == [title |-> "Home", blocks |-> <<ParagraphBlock>>]

\* a page whose body holds the text "PAGE: "
MarkerPage == [title |-> "Notes", blocks |-> <<Leaf("paragraph", <<"HOMEPAGE: intro">>)>>]

SelectablePages == {HomePage, MarkerPage}

TasksDatabase(fetch_ok) ==
    [database |-> [title |-> <<"Tasks">>, properties |-> SubSeq(SchemaProperties, 1, 2)],
     query_results |-> <<<<NameProp, TagsProp>>>>,
     fetch_ok |-> fetch_ok]

\* what get_accessible_databases gives get_all_databases_content: the
\* databases of the workspace, or an exception (no client without a token)
Listed(databases) == [ok |-> TRUE, databases |-> databases]

ListingRaised == [ok |-> FALSE, databases |-> <<>>]

Workspaces == {ListingRaised, Listed(<<TasksDatabase(TRUE)>>), Listed(<<TasksDatabase(FALSE)>>)}

------------------------------------------------------------------------------
(* Specification of a load: the databases, then the page loop, then the *)
(* aggregation and the content summary.  Both modules of the integration *)
(* import, and something is selected (load_notion_content returns early  *)
(* and the load button is disabled otherwise).                           *)

InitLoad ==
    /\ pc = "load_start"
    /\ front \in {"cli", "streamlit"}
    /\ user_name = "Bob"
    /\ user_id = "user_bob"
    /\ notion_content = ""
    /\ notion_loaded = FALSE
    /\ store = <<>>
    /\ NoTurn
    /\ selected_databases \in BOOLEAN
    /\ workspace_databases \in (IF selected_databases THEN Workspaces ELSE {Listed(<<>>)})
    /\ selected_pages \in SeqsUpTo(SelectablePages, MaxPages)
    /\ selected_databases \/ selected_pages # <<>>
    /\ database_content = ""
    /\ page_content = ""
    /\ page_index = 1
    /\ fetched = <<>>
    /\ page_outcomes = <<>>
    /\ summary = NoSummary
    /\ IdleFlatten
    /\ IdleDb
    /\ IdleSession
    /\ IdleMemory
    /\ IdleStartup
    /\ IdleLoop
    /\ IdleSelect

\* load_notion_content of mainv2.py, "Load selected database content": an
\* exception of get_all_databases_content is caught and the load goes on
CliLoadDatabases ==
    /\ pc = "load_start"
    /\ front = "cli"
    /\ database_content' =
          IF selected_databases /\ workspace_databases.ok
          THEN get_all_databases_content(workspace_databases.databases)
          ELSE ""
    /\ pc' = "load_pages"
    /\ UNCHANGED <<selected_databases, workspace_databases, selected_pages, page_content,
                   page_index, fetched, page_outcomes, summary>>
    /\ UNCHANGED <<flattenVars, chatVars, dbVars, memoryVars, sessionVars, startVars, loopVars, selectVars>>

\* load_notion_content of streamlit_notion_chatbot.py, "Load database
\* content": an exception of get_all_databases_content ends the load with the
\* content built so far, which is empty, and the button handler warns
StreamlitLoadDatabases ==
    /\ pc = "load_start"
    /\ front = "streamlit"
    /\ IF selected_databases /\ ~workspace_databases.ok
       THEN /\ database_content' = ""
            /\ pc' = "load_done"
       ELSE /\ database_content' =
                  IF selected_databases
                  THEN get_all_databases_content(workspace_databases.databases)
                  ELSE ""
            /\ pc' = "load_pages"
    /\ UNCHANGED <<selected_databases, workspace_databases, selected_pages, page_content,
                   page_index, fetched, page_outcomes, summary>>
    /\ UNCHANGED <<flattenVars, chatVars, dbVars, memoryVars, sessionVars, startVars, loopVars, selectVars>>

\* one pass of the page loop, the same in both front ends
LoadPage ==
    /\ pc = "load_pages"
    /\ page_index <= Len(selected_pages)
    /\ \E outcome \in PageOutcomes :
          /\ fetched' = Append(fetched, page_index)
          /\ page_outcomes' = Append(page_outcomes, outcome)
          /\ page_content' = AppendPage(page_content, selected_pages[page_index], outcome)
          /\ page_index' = AfterPage(page_index, outcome, Len(selected_pages))
    /\ UNCHANGED <<pc, selected_databases, workspace_databases, selected_pages, database_content,
                   summary>>
    /\ UNCHANGED <<flattenVars, chatVars, dbVars, memoryVars, sessionVars, startVars, loopVars, selectVars>>

\* load_notion_content of mainv2.py after the loop: the content is combined
\* and, when it is not empty, stored in memory as a snapshot
CliCombine ==
    /\ pc = "load_pages"
    /\ front = "cli"
    /\ page_index > Len(selected_pages)
    /\ LET content == Aggregate(database_content, page_content)
       IN  /\ notion_content' = content
           /\ IF content # ""
              THEN \E add_ok \in BOOLEAN :
                      /\ memory_added' =
                            Append(memory_added,
                                   [user_id |-> user_id,
                                    messages |-> <<Message("system", Sentinel \o "\n" \o content)>>,
                                    ok |-> add_ok])
                      /\ store' =
                            IF add_ok
                            THEN Append(store,
                                        [user_id |-> user_id,
                                         messages |-> <<Message("system", Sentinel \o "\n" \o content)>>])
                            ELSE store
                      /\ notion_loaded' = (add_ok \/ notion_loaded)
              ELSE UNCHANGED <<memory_added, store, notion_loaded>>
    /\ pc' = "load_done"
    /\ UNCHANGED <<front, user_name, user_id, user_message, search_result, relevant_memories,
                   context, notion_context, system_prompt, groq_messages, chat_completion, calls, response>>
    /\ UNCHANGED <<flattenVars, dbVars, memoryVars, sessionVars, loadVars, startVars, loopVars, selectVars>>

\* NotionGroqChatbot.show_loaded_content
CliShowLoadedContent ==
    /\ pc = "load_done"
    /\ front = "cli"
    /\ summary' = IF ~notion_loaded \/ notion_content = ""
                  THEN NoSummary
                  ELSE ContentSummary(notion_content)
    /\ pc' = "summary_shown"
    /\ UNCHANGED <<selected_databases, workspace_databases, selected_pages, database_content,
                   page_content, page_index, fetched, page_outcomes>>
    /\ UNCHANGED <<flattenVars, chatVars, dbVars, memoryVars, sessionVars, startVars, loopVars, selectVars>>

\* the load button of streamlit_notion_chatbot.py after the loop: the content
\* is returned, kept in the session when it is not empty, and summarised
StreamlitCombine ==
    /\ pc = "load_pages"
    /\ front = "streamlit"
    /\ page_index > Len(selected_pages)
    /\ LET content == Aggregate(database_content, page_content)
       IN  /\ notion_content' = IF content # "" THEN content ELSE notion_content
           /\ summary' = IF content # "" THEN ContentSummary(content) ELSE NoSummary
    /\ pc' = "load_done"
    /\ UNCHANGED <<front, user_name, user_id, notion_loaded, user_message, search_result,
                   relevant_memories, context, notion_context, system_prompt, groq_messages, chat_completion, calls,
                   response, memory_added, store>>
    /\ UNCHANGED <<selected_databases, workspace_databases, selected_pages, database_content,
                   page_content, page_index, fetched, page_outcomes>>
    /\ UNCHANGED <<flattenVars, dbVars, memoryVars, sessionVars, startVars, loopVars, selectVars>>

NextLoad ==
    \/ CliLoadDatabases
    \/ StreamlitLoadDatabases
    \/ LoadPage
    \/ CliCombine
    \/ CliShowLoadedContent
    \/ StreamlitCombine

SpecLoad == InitLoad /\ [][NextLoad]_vars

------------------------------------------------------------------------------
(* Claims about a load *)

\* the selected pages that were flattened and aggregated, in selection order
LoadedPages ==
    LET positions == SelectSeq(fetched, LAMBDA i : page_outcomes[i] = "ok")
    IN  [j \in 1..Len(positions) |-> selected_pages[positions[j]]]

\* C4 as the claim states it: the page count of the content summary is the
\* number of pages that were flattened and aggregated, and no flattened page
\* holds an occurrence of "PAGE: ".
C4_AsStated ==
    summary.shown =>
        /\ summary.page_count = Len(LoadedPages)
        /\ \A j \in 1..Len(LoadedPages) :
              ~Contains(get_page_content(LoadedPages[j].title, LoadedPages[j].blocks, TRUE).content,
                        "PAGE: ")

\* the titles of the "PAGE:" sections of the aggregated content, read back
\* from the text in the order they appear
SectionTitles(content) ==
    LET pieces == Split(content, "\n" \o Repeat("=", BannerWidth) \o "\nPAGE: ")
    IN  [j \in 1..(Len(pieces) - 1) |-> SubSeq(pieces[j + 1], 1, NextOcc(pieces[j + 1], "\n", 1) - 1)]

LoopDone == pc \in {"load_done", "summary_shown"} /\ page_index > Len(selected_pages)

\* C6: once the page loop has run, get_page_content was called on every
\* selected page, in selection order, whatever the outcome of each call, and
\* the aggregated content has a "PAGE:" section for exactly the pages that
\* succeeded, in selection order.
C6_FailureIsolated ==
    LoopDone =>
        /\ fetched = [i \in 1..Len(selected_pages) |-> i]
        /\ SectionTitles(Aggregate(database_content, page_content))
              = [j \in 1..Len(LoadedPages) |-> LoadedPages[j].title]

\* three pages were selected, the second failed, the first and the third are
\* in the aggregated content
C6_Witness ==
    /\ LoopDone
    /\ Len(selected_pages) = 3
    /\ page_outcomes[1] = "ok" /\ page_outcomes[2] # "ok" /\ page_outcomes[3] = "ok"
    /\ selected_pages[1] # selected_pages[3]
    /\ SectionTitles(notion_content) = <<selected_pages[1].title, selected_pages[3].title>>

------------------------------------------------------------------------------
(* Specification of a session: the first load, then the commands that load, *)
(* reload and clear, in any order.  The memory store is the collaborator    *)
(* behind memory.add and memory.delete_all: it keeps the message lists it   *)
(* accepted under their owner until delete_all removes the owner's.         *)

\* a store that drops nothing
DeleteNothing(held, owner) == held

\* memory.delete_all(user_id=owner) when it succeeds
DeleteAll(held, owner) == SelectSeq(held, LAMBDA m : m.user_id # owner)

\* the messages of a content snapshot
SnapshotMessages(content) == <<Message("system", Sentinel \o "\n" \o content)>>

EarlierConversation ==
    <<Message("user", "I like green tea"), Message("assistant", "Noted")>>

\* what the store holds when the session starts
PriorStores ==
    {<<>>,
     <<[user_id |-> "user_bob", messages |-> EarlierConversation],
       [user_id |-> OtherOwner, messages |-> EarlierConversation]>>}

\* the page selections of a session: no page, or one of the two pages
SessionPages == {<<>>, <<HomePage>>, <<MarkerPage>>}

\* what select_notion_content, or the sidebar, hands to the load
Selections ==
    {[databases |-> FALSE, workspace |-> Listed(<<>>), pages |-> pages] : pages \in SessionPages}
    \cup {[databases |-> TRUE, workspace |-> workspace, pages |-> pages] :
            workspace \in Workspaces, pages \in SessionPages}

\* a load without the early return on an empty selection
NothingSelectedIgnored(sel) == FALSE

\* if not selected_databases and not selected_pages: return
NothingSelected(sel) == ~sel.databases /\ sel.pages = <<>>

\* the chat loop, or the page, waits for the next command
AtPrompt == pc \in {"prompt", "load_done"}

InitSession ==
    /\ front \in {"cli", "streamlit"}
    /\ pc = IF front = "cli" THEN "session_start" ELSE "prompt"
    /\ user_name = "Bob"
    /\ user_id = "user_bob"
    /\ notion_content = ""
    /\ notion_loaded = FALSE
    /\ store \in PriorStores
    /\ NoTurn
    /\ IdleLoad
    /\ IdleSession
    /\ IdleMemory
    /\ IdleStartup
    /\ IdleLoop
    /\ IdleSelect
    /\ IdleFlatten
    /\ IdleDb

\* the entry of a load: the selection is taken and the locals start empty;
\* the CLI load returns at once when nothing is selected
EnterLoad(sel) ==
    /\ IF NothingSelected(sel)
       THEN /\ pc' = "prompt"
            /\ UNCHANGED loadVars
       ELSE /\ pc' = "load_start"
            /\ selected_databases' = sel.databases
            /\ workspace_databases' = sel.workspace
            /\ selected_pages' = sel.pages
            /\ database_content' = ""
            /\ page_content' = ""
            /\ page_index' = 1
            /\ fetched' = <<>>
            /\ page_outcomes' = <<>>
            /\ UNCHANGED summary

\* chat of mainv2.py: load_notion_content before the loop, and the command "reload"
CliLoadCommand ==
    /\ front = "cli"
    /\ pc = "session_start" \/ AtPrompt
    /\ command_count < MaxCommands
    /\ command' = IF pc = "session_start" THEN "load" ELSE "reload"
    /\ command_count' = command_count + 1
    /\ \E sel \in Selections : EnterLoad(sel)
    /\ UNCHANGED <<delete_ok, store_before, content_before>>
    /\ UNCHANGED <<flattenVars, chatVars, dbVars, memoryVars, startVars, loopVars, selectVars>>

\* NotionGroqChatbot.clear_memory: delete_all, then load_notion_content
CliClearMemory ==
    /\ front = "cli"
    /\ AtPrompt
    /\ command_count < MaxCommands
    /\ command' = "clear"
    /\ command_count' = command_count + 1
    /\ store_before' = store
    /\ content_before' = notion_content
    /\ \E ok \in BOOLEAN :
          /\ delete_ok' = ok
          /\ IF ok
             THEN /\ store' = DeleteAll(store, user_id)
                  /\ \E sel \in Selections : EnterLoad(sel)
             ELSE /\ store' = store
                  /\ pc' = "prompt"
                  /\ UNCHANGED loadVars
    /\ UNCHANGED <<front, user_name, user_id, notion_content, notion_loaded, user_message,
                   search_result, relevant_memories, context, notion_context, system_prompt,
                   groq_messages, chat_completion, calls, response, memory_added>>
    /\ UNCHANGED <<flattenVars, dbVars, memoryVars, startVars, loopVars, selectVars>>

\* main of streamlit_notion_chatbot.py: the load button, enabled when something is selected
StreamlitLoadButton ==
    /\ front = "streamlit"
    /\ AtPrompt
    /\ command_count < MaxCommands
    /\ command' = "load"
    /\ command_count' = command_count + 1
    /\ \E sel \in Selections :
          /\ ~NothingSelected(sel)
          /\ EnterLoad(sel)
    /\ UNCHANGED <<delete_ok, store_before, content_before>>
    /\ UNCHANGED <<flattenVars, chatVars, dbVars, memoryVars, startVars, loopVars, selectVars>>

\* main of streamlit_notion_chatbot.py: the clear button
StreamlitClearButton ==
    /\ front = "streamlit"
    /\ AtPrompt
    /\ command_count < MaxCommands
    /\ command' = "clear"
    /\ command_count' = command_count + 1
    /\ store_before' = store
    /\ content_before' = notion_content
    /\ \E ok \in BOOLEAN, add_ok \in BOOLEAN :
          /\ delete_ok' = ok
          /\ IF ok /\ notion_content # ""
             THEN /\ memory_added' =
                        Append(memory_added,
                               [user_id |-> user_id, messages |-> SnapshotMessages(notion_content),
                                ok |-> add_ok])
                  /\ store' =
                        IF add_ok
                        THEN Append(DeleteAll(store, user_id),
                                    [user_id |-> user_id, messages |-> SnapshotMessages(notion_content)])
                        ELSE DeleteAll(store, user_id)
             ELSE /\ memory_added' = memory_added
                  /\ store' = IF ok THEN DeleteAll(store, user_id) ELSE store
    /\ pc' = "prompt"
    /\ UNCHANGED <<front, user_name, user_id, notion_content, notion_loaded, user_message,
                   search_result, relevant_memories, context, notion_context, system_prompt,
                   groq_messages, chat_completion, calls, response>>
    /\ UNCHANGED <<loadVars, flattenVars, dbVars, memoryVars, startVars, loopVars, selectVars>>

NextSession ==
    \/ CliLoadCommand
    \/ CliClearMemory
    \/ StreamlitLoadButton
    \/ StreamlitClearButton
    \/ CliLoadDatabases
    \/ StreamlitLoadDatabases
    \/ LoadPage
    \/ CliCombine
    \/ StreamlitCombine

SpecSession == InitSession /\ [][NextSession]_vars

------------------------------------------------------------------------------
(* Claims about a session *)

IsOwn(m) == m.user_id = user_id

\* what the store holds for the owner of the session
OwnerRecords == SelectSeq(store, IsOwn)

ClearDone == command = "clear" /\ AtPrompt

\* C12 as the claim states it: after a clear whose delete_all succeeded, in a
\* session that had content loaded, the store holds for the owner the snapshot
\* of the currently loaded content and nothing else; after a failed
\* delete_all nothing was re-ingested.
C12_AsStated ==
    ClearDone =>
        /\ (delete_ok /\ content_before # "")
              => OwnerRecords = <<[user_id |-> user_id, messages |-> SnapshotMessages(notion_content)]>>
        /\ ~delete_ok => store = store_before

\* C12, amended: after a clear whose delete_all succeeded the store holds none
\* of the owner's earlier memories and leaves the other owners' alone; it
\* holds for the owner at most the snapshot of the currently loaded content,
\* and holds it only if the last memory.add was that snapshot and succeeded.
\* After a failed delete_all nothing was re-ingested.
C12_ClearOutcome ==
    ClearDone =>
        /\ ~delete_ok => (store = store_before /\ notion_content = content_before)
        /\ delete_ok =>
              /\ SelectSeq(store, LAMBDA m : m.user_id # user_id)
                    = SelectSeq(store_before, LAMBDA m : m.user_id # user_id)
              /\ \/ OwnerRecords = <<>>
                 \/ /\ OwnerRecords
                          = <<[user_id |-> user_id, messages |-> SnapshotMessages(notion_content)]>>
                    /\ notion_content # ""
                    /\ memory_added # <<>>
                    /\ memory_added[Len(memory_added)]
                          = [user_id |-> user_id, messages |-> SnapshotMessages(notion_content),
                             ok |-> TRUE]

\* a clear replaced the owner's earlier memories by the snapshot of the
\* loaded content and kept the other owner's memory
C12_Witness ==
    /\ ClearDone
    /\ delete_ok
    /\ content_before # ""
    /\ \E i \in 1..Len(store_before) :
          store_before[i] = [user_id |-> user_id, messages |-> EarlierConversation]
    /\ OwnerRecords = <<[user_id |-> user_id, messages |-> SnapshotMessages(notion_content)]>>
    /\ Len(store) = 2

------------------------------------------------------------------------------
(* mainv2.py, streamlit_notion_chatbot.py: the display of memories *)

\* memory_text[:150] + "..." if len(memory_text) > 150 else memory_text
PreviewOf(memory_text) ==
    IF Len(memory_text) > MemoryPreview
    THEN SubSeq(memory_text, 1, MemoryPreview) \o "..."
    ELSE memory_text

\* the test of both display loops: a text that is not a snapshot; a value
\* that is not a str and not empty makes startswith raise and is skipped
Displayable(memory) ==
    /\ memory.memory.text # ""
    /\ memory.memory.isstr
    /\ ~StartsWith(memory.memory.text, Sentinel)

\* NotionGroqChatbot.show_memories: what it prints for a result of get_all
ShowMemoriesCli(result, owner) ==
    IF ~result.ok THEN <<>>
    ELSE LET user_memories == SelectSeq(result.results, LAMBDA m : m.user_id = owner)
             recent_memories == FirstN(Reversed(user_memories), DisplayWindow)
             shown == FirstN(SelectSeq(recent_memories, Displayable), DisplayLimit)
         IN  [i \in 1..Len(shown) |-> PreviewOf(shown[i].memory.text)]

\* StreamlitNotionChatbot.get_all_memories
get_all_memories(result, owner) ==
    IF ~result.ok THEN <<>> ELSE SelectSeq(result.results, LAMBDA m : m.user_id = owner)

\* the Show Memories button: what it writes for a result of get_all
ShowMemoriesStreamlit(result, owner) ==
    LET memories == get_all_memories(result, owner)
        shown == FirstN(SelectSeq(Reversed(memories), Displayable), StreamlitDisplayLimit)
    IN  [i \in 1..Len(shown) |-> shown[i].memory.text]

------------------------------------------------------------------------------
(* Specification of the memory command: the store returns a list, which is *)
(* displayed                                                               *)

LongMemory == Repeat("0123456789", 15) \o "x"

\* the stored list, oldest first: older conversation memories, snapshots,
\* recent conversation memories (the last of them long), and a memory of
\* another owner
StoredList(older, snapshots, recent, long) ==
    [i \in 1..older |-> MemoryRecord("user_bob", "old memory " \o NatToStr(i))]
    \o [i \in 1..snapshots |-> MemoryRecord("user_bob", Sentinel \o "\nNOTION PAGES: " \o NatToStr(i))]
    \o [i \in 1..recent |->
           MemoryRecord("user_bob",
                        IF long /\ i = recent THEN LongMemory ELSE "memory " \o NatToStr(i))]
    \o <<MemoryRecord(OtherOwner, "their memory")>>

StoredLists ==
    {StoredList(older, snapshots, recent, long) :
        older \in 0..MaxOlder, snapshots \in 0..MaxSnapshots, recent \in 0..MaxRecent,
        long \in BOOLEAN}

InitMemory ==
    /\ pc = "prompt"
    /\ front \in {"cli", "streamlit"}
    /\ user_name = "Bob"
    /\ user_id = "user_bob"
    /\ notion_content = ""
    /\ notion_loaded = FALSE
    /\ store = <<>>
    /\ NoTurn
    /\ get_all_result \in {Returned(results) : results \in StoredLists}
    /\ displayed = <<>>
    /\ IdleStartup
    /\ IdleLoop
    /\ IdleSelect
    /\ IdleLoad
    /\ IdleSession
    /\ IdleFlatten
    /\ IdleDb

\* the command "memory" of the chat loop; get_all returns the list or raises
CliShowMemories ==
    /\ pc = "prompt"
    /\ front = "cli"
    /\ \E ok \in BOOLEAN :
          /\ get_all_result' = [ok |-> ok, results |-> IF ok THEN get_all_result.results ELSE <<>>]
          /\ displayed' = ShowMemoriesCli(get_all_result', user_id)
    /\ pc' = "memories_shown"
    /\ UNCHANGED <<flattenVars, chatVars, dbVars, loadVars, sessionVars, startVars, loopVars, selectVars>>

\* the Show Memories button; get_all returns the list or raises
StreamlitShowMemories ==
    /\ pc = "prompt"
    /\ front = "streamlit"
    /\ \E ok \in BOOLEAN :
          /\ get_all_result' = [ok |-> ok, results |-> IF ok THEN get_all_result.results ELSE <<>>]
          /\ displayed' = ShowMemoriesStreamlit(get_all_result', user_id)
    /\ pc' = "memories_shown"
    /\ UNCHANGED <<flattenVars, chatVars, dbVars, loadVars, sessionVars, startVars, loopVars, selectVars>>

NextMemory ==
    \/ CliShowMemories
    \/ StreamlitShowMemories

SpecMemory == InitMemory /\ [][NextMemory]_vars

------------------------------------------------------------------------------
(* Claims about the memory command *)

MemoriesShown == pc = "memories_shown" /\ get_all_result.ok

IsOwnConversation(m) == m.user_id = user_id /\ ~StartsWith(m.memory.text, Sentinel)

\* the owner's stored memories that are not snapshots, most recent first
OwnConversations == Reversed(SelectSeq(get_all_result.results, IsOwnConversation))

\* C13 as the claim states it: the memory command displays the min(5, k) most
\* recent of the k non-snapshot memories of the owner, most recent first,
\* each as its first 150 characters and "..." when it is longer.
C13_AsStated ==
    MemoriesShown =>
        LET k == Len(OwnConversations)
            expected == [i \in 1..(IF k < 5 THEN k ELSE 5) |->
                            LET text == OwnConversations[i].memory.text
                            IN  IF Len(text) > 150 THEN SubSeq(text, 1, 150) \o "..." ELSE text]
        IN  displayed = expected

------------------------------------------------------------------------------
(* Claims about the snapshot a load persists *)

LoadCompleted == pc \in {"load_done", "summary_shown"}

\* the store holds the snapshot of the content for the owner
SnapshotPersisted(content) ==
    \E i \in 1..Len(store) :
        store[i] = [user_id |-> user_id, messages |-> SnapshotMessages(content)]

\* C14 as the claim states it: every load that produces non-empty aggregated
\* content persists the snapshot of that content, in full, under the owner
\* key, in the CLI and in the browser front end.
C14_AsStated ==
    LoadCompleted /\ notion_content # "" => SnapshotPersisted(notion_content)

------------------------------------------------------------------------------
(* Specification of the chat loop: each input is a message, answered by    *)
(* generate_response, or the memory command; then the next input is read   *)

\* what get_all returns in the chat loop: a snapshot and a memory of the
\* owner, and a memory of another owner
LoopStored == StoredList(0, 1, 1, FALSE)

InitTurns ==
    /\ pc = "prompt"
    /\ front \in {"cli", "streamlit"}
    /\ user_name = "Bob"
    /\ user_id = "user_bob"
    /\ notion_content = ContentOfLength(14)
    /\ notion_loaded = (front = "cli")
    /\ store = <<>>
    /\ NoTurn
    /\ get_all_result = Returned(LoopStored)
    /\ displayed = <<>>
    /\ IdleStartup
    /\ IdleLoop
    /\ IdleSelect
    /\ IdleLoad
    /\ IdleSession
    /\ IdleFlatten
    /\ IdleDb

\* the chat loop reads an input that is no command: generate_response is called
ChatMessage ==
    /\ AtPrompt
    /\ chatbot
    /\ pc' = "ready"
    /\ UNCHANGED <<flattenVars, chatVars, dbVars, loadVars, sessionVars, memoryVars, startVars, loopVars, selectVars>>

\* the chat loop after a reply or a command: the locals of the turn are gone
\* and the next input is read
ChatContinue ==
    /\ pc \in {"responded", "memories_shown"}
    /\ command_count < MaxCommands
    /\ command_count' = command_count + 1
    /\ user_message' = ""
    /\ search_result' = SearchRaised
    /\ relevant_memories' = <<>>
    /\ context' = ""
    /\ notion_context' = ""
    /\ system_prompt' = ""
    /\ groq_messages' = <<>>
    /\ chat_completion' = CompletionRaised
    /\ calls' = <<>>
    /\ response' = ""
    /\ displayed' = <<>>
    /\ get_all_result' = Returned(LoopStored)
    /\ pc' = "prompt"
    /\ UNCHANGED <<front, user_name, user_id, notion_content, notion_loaded, memory_added, store>>
    /\ UNCHANGED <<command, delete_ok, store_before, content_before>>
    /\ UNCHANGED <<flattenVars, dbVars, loadVars, startVars, loopVars, selectVars>>

NextTurns ==
    \/ ChatMessage
    \/ CliGenerateResponse
    \/ StreamlitGenerateResponse
    \/ CliShowMemories
    \/ StreamlitShowMemories
    \/ ChatContinue

SpecTurns == InitTurns /\ [][NextTurns]_vars

------------------------------------------------------------------------------
(* Claims about the chat loop *)

\* the texts of the records of other owners in a list of records
TextsOfOthers(records) ==
    {records[j].memory.text : j \in {i \in 1..Len(records) : records[i].user_id # user_id}}

\* the values of the records of the owner in a list of records
ValuesOfOwner(records) ==
    {records[j].memory : j \in {i \in 1..Len(records) : records[i].user_id = user_id}}

C16_FailuresCaught ==
    /\ pc \in {"prompt", "ready", "responded", "memories_shown"}
    /\ pc = "responded" =>
          /\ response # ""
          /\ ~search_result.ok => relevant_memories = <<>> /\ context = "" /\ groq_messages # <<>>
          /\ ~chat_completion.ok => response = ErrorReply(front)
          /\ chat_completion.ok => response = chat_completion.content
          /\ command_count < MaxCommands => ENABLED ChatContinue

\* a second turn that is answered after a turn whose memory add failed
C16_Witness ==
    /\ pc = "responded"
    /\ Len(memory_added) = 2
    /\ ~memory_added[1].ok
    /\ ~search_result.ok
    /\ chat_completion.ok

------------------------------------------------------------------------------
(* Specification of a startup: main reads the three keys, the chatbot is   *)
(* constructed when the two required keys are set, content is selected and *)
(* loaded, and a message is answered                                       *)

\* a main that returns only when both keys are missing
AnyKeyConfigured(e) == e.GROQ_API_KEY \/ e.MEM0_API_KEY

\* if not GROQ_API_KEY: return / if not MEM0_API_KEY: return
KeysConfigured(e) == e.GROQ_API_KEY /\ e.MEM0_API_KEY

\* what can be selected at startup.  Without a token get_notion_client
\* raises, so the listing of the databases raises, and the search of
\* get_accessible_pages is refused, so no page is offered.
StartupSelections(token) ==
    IF token
    THEN {[databases |-> FALSE, workspace |-> Listed(<<>>), pages |-> <<>>],
          [databases |-> FALSE, workspace |-> Listed(<<>>), pages |-> <<HomePage>>],
          [databases |-> TRUE, workspace |-> Listed(<<TasksDatabase(TRUE)>>), pages |-> <<>>]}
    ELSE {[databases |-> FALSE, workspace |-> Listed(<<>>), pages |-> <<>>],
          [databases |-> TRUE, workspace |-> ListingRaised, pages |-> <<>>]}

InitStartup ==
    /\ pc = "main"
    /\ front \in {"cli", "streamlit"}
    /\ env \in [GROQ_API_KEY : BOOLEAN, MEM0_API_KEY : BOOLEAN, NOTION_TOKEN : BOOLEAN]
    /\ chatbot = FALSE
    /\ IdleLoop
    /\ IdleSelect
    /\ user_name = ""
    /\ user_id = NoUserId
    /\ notion_content = ""
    /\ notion_loaded = FALSE
    /\ store = <<>>
    /\ NoTurn
    /\ IdleLoad
    /\ IdleSession
    /\ IdleMemory
    /\ IdleFlatten
    /\ IdleDb

\* main of mainv2.py: it returns when a required key is missing; otherwise
\* the chatbot is constructed and chat asks for the name
CliMain ==
    /\ pc = "main"
    /\ front = "cli"
    /\ IF KeysConfigured(env)
       THEN /\ chatbot' = TRUE
            /\ user_name' = "Bob"
            /\ user_id' = CliUserId("Bob")
            /\ pc' = "session_start"
       ELSE /\ pc' = "exited"
            /\ UNCHANGED <<chatbot, user_name, user_id>>
    /\ UNCHANGED <<front, notion_content, notion_loaded, user_message, search_result,
                   relevant_memories, context, notion_context, system_prompt, groq_messages,
                   chat_completion, calls, response, memory_added, store>>
    /\ UNCHANGED <<env, flattenVars, dbVars, loadVars, sessionVars, memoryVars, loopVars, selectVars>>

\* chat of mainv2.py: load_notion_content before the loop
CliStartupLoad ==
    /\ pc = "session_start"
    /\ front = "cli"
    /\ \E sel \in StartupSelections(env.NOTION_TOKEN) : EnterLoad(sel)
    /\ UNCHANGED <<flattenVars, chatVars, dbVars, sessionVars, memoryVars, startVars, loopVars, selectVars>>

\* main of streamlit_notion_chatbot.py, the sidebar: the name is entered, the
\* content is selected when a token is set, and the load button is pressed
\* when something is selected
StreamlitSidebar ==
    /\ pc = "main"
    /\ front = "streamlit"
    /\ user_name' = "Bob"
    /\ user_id' = StreamlitUserId("Bob")
    /\ \E sel \in StartupSelections(env.NOTION_TOKEN) :
          IF NothingSelected(sel) \/ ~env.NOTION_TOKEN
          THEN /\ pc' = "chat_area"
               /\ UNCHANGED loadVars
          ELSE EnterLoad(sel)
    /\ UNCHANGED <<front, notion_content, notion_loaded, user_message, search_result,
                   relevant_memories, context, notion_context, system_prompt, groq_messages,
                   chat_completion, calls, response, memory_added, store>>
    /\ UNCHANGED <<flattenVars, dbVars, sessionVars, memoryVars, startVars, loopVars, selectVars>>

\* main of streamlit_notion_chatbot.py after the load button: the chatbot is
\* constructed when both keys are set, and the chat area returns otherwise
StreamlitChatArea ==
    /\ pc \in {"chat_area", "load_done"}
    /\ front = "streamlit"
    /\ ~chatbot
    /\ IF KeysConfigured(env)
       THEN /\ chatbot' = TRUE
            /\ pc' = "prompt"
       ELSE /\ chatbot' = chatbot
            /\ pc' = "exited"
    /\ UNCHANGED <<env, flattenVars, chatVars, dbVars, loadVars, sessionVars, memoryVars, loopVars, selectVars>>

NextStartup ==
    \/ CliMain
    \/ CliStartupLoad
    \/ StreamlitSidebar
    \/ StreamlitChatArea
    \/ CliLoadDatabases
    \/ StreamlitLoadDatabases
    \/ LoadPage
    \/ CliCombine
    \/ StreamlitCombine
    \/ ChatMessage
    \/ CliGenerateResponse
    \/ StreamlitGenerateResponse

SpecStartup == InitStartup /\ [][NextStartup]_vars

------------------------------------------------------------------------------
(* Claims about the startup *)

\* the completion provider has been called
CompletionCalled == groq_messages # <<>>

\* the memory store has been called
MemoryCalled == user_message # "" \/ memory_added # <<>>

\* the workspace provider has been called for a page or for the databases
WorkspaceCalled == fetched # <<>> \/ (selected_databases /\ workspace_databases.ok)

\* C17 as the claim states it: when the completion key or the memory key is
\* absent no chatbot is constructed and no collaborator is called; when only
\* the workspace token is absent the session starts, a turn produces a reply,
\* and no workspace content is loaded.
C17_AsStated ==
    /\ ~(env.GROQ_API_KEY /\ env.MEM0_API_KEY) =>
          ~chatbot /\ ~CompletionCalled /\ ~MemoryCalled /\ ~WorkspaceCalled
    /\ (env.GROQ_API_KEY /\ env.MEM0_API_KEY /\ ~env.NOTION_TOKEN) =>
          /\ pc # "exited"
          /\ notion_content = ""
          /\ pc = "responded" => response # ""

\* C17, amended: when the completion key or the memory key is absent no
\* chatbot is constructed and neither the completion provider nor the memory
\* store is called, and the CLI calls no collaborator at all; the sidebar of
\* the browser front end still lists and loads workspace content when the
\* token is set.  When only the workspace token is absent the session starts,
\* a turn produces the reply of generate_response, and no workspace content
\* is loaded, in the session or in the store.
C17_StartupKeys ==
    /\ ~(env.GROQ_API_KEY /\ env.MEM0_API_KEY) =>
          /\ ~chatbot /\ ~CompletionCalled /\ ~MemoryCalled
          /\ pc \notin {"session_start", "prompt", "ready", "responded"}
          /\ WorkspaceCalled => front = "streamlit" /\ env.NOTION_TOKEN
    /\ (env.GROQ_API_KEY /\ env.MEM0_API_KEY /\ ~env.NOTION_TOKEN) =>
          /\ pc # "exited"
          /\ notion_content = "" /\ ~notion_loaded /\ ~WorkspaceCalled
          /\ pc = "responded" =>
                response = Reply(front, chat_completion) /\ notion_context = ""

\* the browser front end without a completion key has loaded a page and left
\* the chat area
C17_Witness ==
    /\ pc = "exited"
    /\ front = "streamlit"
    /\ ~env.GROQ_API_KEY
    /\ notion_content # ""

------------------------------------------------------------------------------
(* Claims about the aggregated content of a session *)

\* a load has combined its sections into the content of the session (the
\* browser front end keeps the former content when a load produced nothing)
LoadAggregated ==
    /\ pc = "load_done"
    /\ front = "cli" \/ database_content # "" \/ page_content # ""

\* C20: in the content a load has aggregated, after any sequence of load,
\* reload and clear, the databases section stands first and the pages section
\* after it, each is present only when it is not empty and starts with its
\* banner and a rule of 80 "=", and each banner is written once at most: it
\* occurs once for its section, and otherwise only where the text of a section
\* holds it.
C20_BannersOnce ==
    LoadAggregated =>
        LET rule == "\n" \o Repeat("=", 80) \o "\n"
            databases == IF database_content # ""
                         THEN "NOTION DATABASES:" \o rule \o database_content \o "\n\n"
                         ELSE ""
            pages == IF page_content # "" THEN "NOTION PAGES:" \o rule \o page_content ELSE ""
        IN  /\ notion_content = databases \o pages
            /\ Count(notion_content, "NOTION DATABASES:")
                  = (IF database_content # "" THEN 1 ELSE 0)
                    + Count(database_content, "NOTION DATABASES:")
                    + Count(page_content, "NOTION DATABASES:")
            /\ Count(notion_content, "NOTION PAGES:")
                  = (IF page_content # "" THEN 1 ELSE 0)
                    + Count(database_content, "NOTION PAGES:")
                    + Count(page_content, "NOTION PAGES:")

\* a second load of the session, after a load that produced content, has
\* aggregated a databases section and a pages section
C20_Witness ==
    /\ LoadAggregated
    /\ command_count = 2
    /\ content_before # "" \/ command = "reload"
    /\ database_content # ""
    /\ page_content # ""
    /\ Count(notion_content, "NOTION PAGES:") = 1

------------------------------------------------------------------------------
(* Specification of a CLI session: chat of mainv2.py reads the name, loads *)
(* content, and then reads one line after the other from a finite input    *)
(* stream and dispatches on it.  The answers to the questions of           *)
(* select_notion_content are given with the selection and are not counted  *)
(* as lines; when the stream has ended the questions raise and nothing is  *)
(* selected.                                                               *)

\* the lines a user types at the prompt of the chat loop
InputLines ==
    {"quit", "Exit", " BYE", "Memory", "clear", "RELOAD ", "Content", "", "  ", "Hello there"}

\* a chat loop that compares the line as typed, without lower()
CommandOfAsTyped(line) ==
    CASE line \in {"quit", "exit", "bye"} -> "quit"
      [] line = "memory" -> "memory"
      [] line = "clear" -> "clear"
      [] line = "reload" -> "reload"
      [] line = "content" -> "content"
      [] line = "" -> "empty"
      [] OTHER -> "chat"

\* the branch the chat loop takes on a stripped line
CommandOf(line) ==
    LET low == Lower(line)
    IN  CASE low \in {"quit", "exit", "bye"} -> "quit"
          [] low = "memory" -> "memory"
          [] low = "clear" -> "clear"
          [] low = "reload" -> "reload"
          [] low = "content" -> "content"
          [] line = "" -> "empty"
          [] OTHER -> "chat"

Commands == {"quit", "memory", "clear", "reload", "content", "empty", "chat"}

\* input(...).strip() for each line
Stripped == [line \in InputLines |-> Strip(line)]

\* the lines that take each branch of the chat loop
LinesOf == [c \in Commands |-> {line \in InputLines : CommandOf(Stripped[line]) = c}]

\* what select_notion_content hands to a load of the session
CliSelections(lines_left) ==
    IF lines_left = 0
    THEN {[databases |-> FALSE, workspace |-> Listed(<<>>), pages |-> <<>>]}
    ELSE {[databases |-> FALSE, workspace |-> Listed(<<>>), pages |-> <<>>],
          [databases |-> FALSE, workspace |-> Listed(<<>>), pages |-> <<HomePage>>],
          [databases |-> TRUE, workspace |-> Listed(<<TasksDatabase(TRUE)>>), pages |-> <<>>],
          [databases |-> TRUE, workspace |-> ListingRaised, pages |-> <<>>]}

\* what memory.search returns in a session
LoopSearchOutcomes(owner) ==
    {SearchRaised, Returned(<<>>),
     Returned(<<MemoryRecord(owner, SnapshotMemory), MemoryRecord(owner, "Likes green tea"),
                MemoryRecord(OtherOwner, "Owns a boat")>>),
     Returned(<<[user_id |-> owner, memory |-> [isstr |-> FALSE, text |-> "42"]]>>)}

InitCli ==
    /\ pc = "cli_start"
    /\ front = "cli"
    /\ user_name = ""
    /\ user_id = NoUserId
    /\ notion_content = ""
    /\ notion_loaded = FALSE
    /\ store = <<>>
    /\ NoTurn
    /\ get_all_result = Returned(LoopStored)
    /\ displayed = <<>>
    /\ user_input = ""
    /\ input_left \in 0..MaxInputs
    /\ loop_errors = 0
    /\ IdleSelect
    /\ IdleStartup
    /\ IdleLoad
    /\ IdleSession
    /\ IdleFlatten
    /\ IdleDb

\* get_user_info: the name is read; when the stream has ended input raises
\* and get_user_info returns without an owner key
CliEnterName ==
    /\ pc = "cli_start"
    /\ IF input_left > 0
       THEN /\ user_name' = "Bob"
            /\ user_id' = CliUserId("Bob")
            /\ input_left' = input_left - 1
       ELSE UNCHANGED <<user_name, user_id, input_left>>
    /\ pc' = "session_start"
    /\ UNCHANGED <<front, notion_content, notion_loaded, user_message, search_result,
                   relevant_memories, context, notion_context, system_prompt, groq_messages,
                   chat_completion, calls, response, memory_added, store>>
    /\ UNCHANGED <<user_input, loop_errors>>
    /\ UNCHANGED <<flattenVars, dbVars, loadVars, sessionVars, memoryVars, startVars, selectVars>>

\* chat: load_notion_content before the loop
CliFirstLoad ==
    /\ pc = "session_start"
    /\ command' = "load"
    /\ \E sel \in CliSelections(input_left) : EnterLoad(sel)
    /\ UNCHANGED <<command_count, delete_ok, store_before, content_before>>
    /\ UNCHANGED <<flattenVars, chatVars, dbVars, memoryVars, startVars, loopVars, selectVars>>

\* the input of the chat loop: a line of the stream is read and stripped
ReadLine(line) ==
    /\ AtPrompt
    /\ front = "cli"
    /\ user_id # NoUserId
    /\ input_left > 0
    /\ user_input' = Stripped[line]
    /\ input_left' = input_left - 1
    /\ UNCHANGED loop_errors

\* the prompt of the chat loop raises: the owner key is None, or the stream
\* has ended; except Exception reports the error and continues
CliInputRaises ==
    /\ AtPrompt
    /\ front = "cli"
    /\ user_id = NoUserId \/ input_left = 0
    /\ loop_errors' = (loop_errors + 1) % (MaxLoopErrors + 1)
    /\ pc' = "prompt"
    /\ UNCHANGED <<user_input, input_left>>
    /\ UNCHANGED <<flattenVars, chatVars, dbVars, loadVars, sessionVars, memoryVars, startVars, selectVars>>

\* quit, exit or bye: the loop breaks
CliQuit ==
    /\ \E line \in LinesOf["quit"] : ReadLine(line)
    /\ pc' = "ended"
    /\ UNCHANGED <<flattenVars, chatVars, dbVars, loadVars, sessionVars, memoryVars, startVars, selectVars>>

\* the empty line: continue
CliEmptyInput ==
    /\ \E line \in LinesOf["empty"] : ReadLine(line)
    /\ pc' = "prompt"
    /\ UNCHANGED <<flattenVars, chatVars, dbVars, loadVars, sessionVars, memoryVars, startVars, selectVars>>

\* memory: show_memories
CliMemoryInput ==
    /\ \E line \in LinesOf["memory"] : ReadLine(line)
    /\ \E ok \in BOOLEAN :
          /\ get_all_result' = [ok |-> ok, results |-> IF ok THEN LoopStored ELSE <<>>]
          /\ displayed' = ShowMemoriesCli(get_all_result', user_id)
    /\ command' = "memory"
    /\ pc' = "prompt"
    /\ UNCHANGED <<command_count, delete_ok, store_before, content_before>>
    /\ UNCHANGED <<flattenVars, chatVars, dbVars, loadVars, startVars, selectVars>>

\* content: show_loaded_content
CliContentInput ==
    /\ \E line \in LinesOf["content"] : ReadLine(line)
    /\ summary' = IF ~notion_loaded \/ notion_content = ""
                  THEN NoSummary
                  ELSE ContentSummary(notion_content)
    /\ command' = "content"
    /\ pc' = "prompt"
    /\ UNCHANGED <<selected_databases, workspace_databases, selected_pages, database_content,
                   page_content, page_index, fetched, page_outcomes>>
    /\ UNCHANGED <<command_count, delete_ok, store_before, content_before>>
    /\ UNCHANGED <<flattenVars, chatVars, dbVars, memoryVars, startVars, selectVars>>

\* reload: load_notion_content
CliReloadInput ==
    /\ \E line \in LinesOf["reload"] : ReadLine(line)
    /\ command' = "reload"
    /\ store_before' = store
    /\ content_before' = notion_content
    /\ \E sel \in CliSelections(input_left') : EnterLoad(sel)
    /\ UNCHANGED <<command_count, delete_ok>>
    /\ UNCHANGED <<flattenVars, chatVars, dbVars, memoryVars, startVars, selectVars>>

\* clear: clear_memory, which deletes and then loads
CliClearInput ==
    /\ \E line \in LinesOf["clear"] : ReadLine(line)
    /\ command' = "clear"
    /\ store_before' = store
    /\ content_before' = notion_content
    /\ \E ok \in BOOLEAN :
          /\ delete_ok' = ok
          /\ IF ok
             THEN /\ store' = DeleteAll(store, user_id)
                  /\ \E sel \in CliSelections(input_left') : EnterLoad(sel)
             ELSE /\ store' = store
                  /\ pc' = "prompt"
                  /\ UNCHANGED loadVars
    /\ UNCHANGED <<front, user_name, user_id, notion_content, notion_loaded, user_message,
                   search_result, relevant_memories, context, notion_context, system_prompt,
                   groq_messages, chat_completion, calls, response, memory_added>>
    /\ UNCHANGED command_count
    /\ UNCHANGED <<flattenVars, dbVars, memoryVars, startVars, selectVars>>

\* any other line: generate_response is called with it
CliChatInput ==
    /\ \E line \in LinesOf["chat"] : ReadLine(line)
    /\ command' = "chat"
    /\ pc' = "ready"
    /\ UNCHANGED <<command_count, delete_ok, store_before, content_before>>
    /\ UNCHANGED <<flattenVars, chatVars, dbVars, loadVars, memoryVars, startVars, selectVars>>

\* generate_response on the line read
CliChatTurn ==
    /\ pc = "ready"
    /\ front = "cli"
    /\ \E searched \in LoopSearchOutcomes(user_id), completion_ok \in BOOLEAN, add_ok \in BOOLEAN :
          Respond(user_input, searched, CliNotionContext(notion_loaded, notion_content),
                  CliFiltered(get_relevant_memories(searched, user_id)), completion_ok, add_ok)

\* the reply is printed and the loop goes on
CliReplyPrinted ==
    /\ pc = "responded"
    /\ front = "cli"
    /\ pc' = "prompt"
    /\ UNCHANGED <<flattenVars, chatVars, dbVars, loadVars, sessionVars, memoryVars, startVars,
                   loopVars, selectVars>>

NextCli ==
    \/ CliEnterName
    \/ CliFirstLoad
    \/ CliInputRaises
    \/ CliQuit
    \/ CliEmptyInput
    \/ CliMemoryInput
    \/ CliContentInput
    \/ CliReloadInput
    \/ CliClearInput
    \/ CliChatInput
    \/ CliChatTurn
    \/ CliReplyPrinted
    \/ CliLoadDatabases
    \/ LoadPage
    \/ CliCombine

SpecCli == InitCli /\ [][NextCli]_vars

------------------------------------------------------------------------------
(* Claims about a CLI session *)

\* a load has ended and every selected page and database failed or was empty
LoadEndedEmpty == pc = "load_done" /\ database_content = "" /\ page_content = ""

\* what the store holds when the load of the last command began
StoreAtLoad == IF command = "clear" THEN DeleteAll(store_before, user_id) ELSE store_before

\* C21 as the claim states it: when a load ends with no content, no snapshot
\* is added to the store and the content flag is "not loaded"; with no
\* content, the content command reports that nothing is loaded and a chat
\* turn calls the completion provider with a prompt without Notion section.
C21_AsStated ==
    /\ LoadEndedEmpty => (store = StoreAtLoad /\ ~notion_loaded)
    /\ (command = "content" /\ pc = "prompt" /\ notion_content = "") => summary = NoSummary
    /\ (pc = "responded" /\ notion_content = "") =>
          /\ groq_messages # <<>>
          /\ notion_context = ""
          /\ system_prompt = PromptIntro \o context \o PromptInstructions

------------------------------------------------------------------------------
(* mainv2.py: the page selection *)

IsDigit(c) == \E d \in 1..10 : Char(Digits, d) = c

DigitValue(c) == (CHOOSE d \in 1..10 : Char(Digits, d) = c) - 1

RECURSIVE StrToNat(_)
StrToNat(s) ==
    IF s = "" THEN 0
    ELSE StrToNat(SubSeq(s, 1, Len(s) - 1)) * 10 + DigitValue(Char(s, Len(s)))

\* int(text): whitespace around is dropped, a sign may stand in front of the
\* decimal digits; anything else is a ValueError
ParseInt(text) ==
    LET stripped == Strip(text)
        signed == stripped # "" /\ Char(stripped, 1) \in {"+", "-"}
        digits == IF signed THEN SubSeq(stripped, 2, Len(stripped)) ELSE stripped
    IN  IF digits # "" /\ \A i \in 1..Len(digits) : IsDigit(Char(digits, i))
        THEN [ok |-> TRUE,
              value |-> IF signed /\ Char(stripped, 1) = "-" THEN 0 - StrToNat(digits)
                        ELSE StrToNat(digits)]
        ELSE [ok |-> FALSE, value |-> 0]

ValueError(selected) == [ok |-> FALSE, selected |-> selected]

Parsed(selected) == [ok |-> TRUE, selected |-> selected]

\* an append without the membership test
AddPageAgain(selected, page) == Append(selected, page)

\* if pages[i] not in selected_pages: selected_pages.append(pages[i])
AddPage(selected, page) ==
    IF \E j \in 1..Len(selected) : selected[j] = page THEN selected ELSE Append(selected, page)

RECURSIVE AddRange(_, _, _, _)
\* for i in range(start_idx, stop): the pages at the 0-based indexes start_idx..stop-1
AddRange(selected, listed, start_idx, stop) ==
    IF start_idx >= stop THEN selected
    ELSE AddRange(AddPage(selected, listed[start_idx + 1]), listed, start_idx + 1, stop)

\* the body of the loop over the parts, for one part
ParsePart(part, listed, selected) ==
    IF Contains(part, "-")
    THEN LET dash == NextOcc(part, "-", 1)
             start == ParseInt(SubSeq(part, 1, dash - 1))
             end == ParseInt(SubSeq(part, dash + 1, Len(part)))
             start_idx == start.value - 1
             end_idx == end.value - 1
         IN  IF ~start.ok \/ ~end.ok THEN ValueError(selected)
             ELSE IF 0 <= start_idx /\ start_idx < Len(listed) /\ 0 <= end_idx /\ end_idx < Len(listed)
             THEN Parsed(AddRange(selected, listed, start_idx, Min({end_idx + 1, Len(listed)})))
             ELSE Parsed(selected)
    ELSE LET number == ParseInt(part)
             page_num == number.value - 1
         IN  IF ~number.ok THEN ValueError(selected)
             ELSE IF 0 <= page_num /\ page_num < Len(listed)
             THEN Parsed(AddPage(selected, listed[page_num + 1]))
             ELSE Parsed(selected)

RECURSIVE ParseParts(_, _, _)
\* the loop over the parts: it ends at the first part that raises
ParseParts(parts, listed, selected) ==
    IF parts = <<>> THEN Parsed(selected)
    ELSE LET outcome == ParsePart(Head(parts), listed, selected)
         IN  IF outcome.ok THEN ParseParts(Tail(parts), listed, outcome.selected) ELSE outcome

\* the parts of a selection: [part.strip() for part in selection.split(',')]
PartsOf(selection) ==
    LET pieces == Split(selection, ",") IN [i \in 1..Len(pieces) |-> Strip(pieces[i])]

\* a parser that keeps the pages selected before the part that raised
ParseKeepingPrefix(selection, listed) == ParseParts(PartsOf(selection), listed, <<>>).selected

\* NotionGroqChatbot.parse_page_selection: the except clause returns []
parse_page_selection(selection, listed) ==
    LET outcome == ParseParts(PartsOf(selection), listed, <<>>)
    IN  IF outcome.ok THEN outcome.selected ELSE <<>>

\* select_notion_content, from the answer to the pages to load
SelectPages(selection, listed) ==
    IF listed = <<>> THEN <<>>
    ELSE IF Lower(selection) = "all" THEN listed
    ELSE IF Lower(selection) \in {"none", ""} THEN <<>>
    ELSE parse_page_selection(selection, listed)

------------------------------------------------------------------------------
(* Specification of the page selection: pages are listed, the user answers, *)
(* and the answer is turned into the selected pages                         *)

\* the pages get_accessible_pages lists
Listing(n) == [i \in 1..n |-> [title |-> "Page " \o NatToStr(i), blocks |-> <<ParagraphBlock>>]]

\* what a part of an answer means: a page number, or a range of page numbers
Mention(first, last, range) == [first |-> first, last |-> last, range |-> range]

Mentions ==
    {Mention(n, n, FALSE) : n \in 0..MaxListed + 1} \cup
        {Mention(a, b, TRUE) : a \in 0..MaxListed + 1, b \in 0..MaxListed + 1}

\* an answer: up to two mentions, written with or without spaces
Answers == {[mentions |-> m, spaced |-> sp] : m \in SeqsUpTo(Mentions, 2) \ {<<>>}, sp \in BOOLEAN}

WriteMention(m, spaced) ==
    IF m.range
    THEN NatToStr(m.first) \o (IF spaced THEN " - " ELSE "-") \o NatToStr(m.last)
    ELSE NatToStr(m.first)

\* the text of an answer
Write(a) ==
    Join(IF a.spaced THEN " , " ELSE ",",
         [i \in 1..Len(a.mentions) |-> WriteMention(a.mentions[i], a.spaced)])

\* the answers with their texts
WrittenAnswers == {[answer |-> a, text |-> Write(a)] : a \in Answers}

\* answers with a part that is no number and no range of two numbers
MalformedSelections ==
    {"x", "-3", "2-", "1,x", "x,1", "1,,2", "1-2,", "a-b", "1-b", "2-3-1", "1.5", "1 2", "-",
     "1,2-", "first", "3,-1"}

OtherSelections == {"all", "ALL", "none", "None", "", "+2", "1--2"}

InitSelect ==
    /\ pc = "select_pages"
    /\ front = "cli"
    /\ user_name = "Bob"
    /\ user_id = "user_bob"
    /\ notion_content = ""
    /\ notion_loaded = FALSE
    /\ store = <<>>
    /\ NoTurn
    /\ listed_pages \in {Listing(n) : n \in 0..MaxListed}
    /\ page_selection \in {w.text : w \in WrittenAnswers} \cup MalformedSelections \cup OtherSelections
    /\ IdleLoad
    /\ IdleSession
    /\ IdleMemory
    /\ IdleStartup
    /\ IdleLoop
    /\ IdleFlatten
    /\ IdleDb

\* select_notion_content: the answer is turned into the selected pages
CliSelectPages ==
    /\ pc = "select_pages"
    /\ selected_pages' = SelectPages(page_selection, listed_pages)
    /\ pc' = "pages_selected"
    /\ UNCHANGED <<selected_databases, workspace_databases, database_content, page_content,
                   page_index, fetched, page_outcomes, summary>>
    /\ UNCHANGED <<flattenVars, chatVars, dbVars, sessionVars, memoryVars, startVars, loopVars,
                   selectVars>>

NextSelect == CliSelectPages

SpecSelect == InitSelect /\ [][NextSelect]_vars

------------------------------------------------------------------------------
(* Claims about the page selection *)

PagesSelected == pc = "pages_selected"

\* C22: a malformed page selection (a part that is not a number, a range with
\* an empty bound such as "-3" or "2-") is never fatal: the selection ends
\* with the empty list of pages, also when other parts of the answer name
\* pages, which is what the answer "none" gives, so that the load goes on as
\* with no page selected.
C22_MalformedSelectsNothing ==
    (PagesSelected /\ page_selection \in MalformedSelections) =>
        /\ selected_pages = <<>>
        /\ selected_pages = SelectPages("none", listed_pages)

\* pages are listed and the answer names page 1 before a part that is no number
C22_Witness ==
    /\ PagesSelected
    /\ Len(listed_pages) = 2
    /\ page_selection = "1,x"
    /\ selected_pages = <<>>

\* the page numbers a mention names when n pages are listed
NamedBy(m, n) ==
    IF m.range
    THEN IF m.first \in 1..n /\ m.last \in 1..n THEN m.first..m.last ELSE {}
    ELSE {m.first} \cap 1..n

\* the first mention of an answer that names page i
FirstMention(a, n, i) == Min({k \in 1..Len(a.mentions) : i \in NamedBy(a.mentions[k], n)})

PositionOf(selected, page) == CHOOSE k \in 1..Len(selected) : selected[k] = page

\* C28: parse_page_selection returns a list without duplicates whose elements
\* are listed pages; for an answer made of numbers and ranges the pages are
\* exactly those named by an in-range number or by a range with both bounds
\* in 1..len(pages) and start <= end, in the order of their first mention.
C28_SelectionWellFormed ==
    PagesSelected =>
        /\ \A j, k \in 1..Len(selected_pages) : selected_pages[j] = selected_pages[k] => j = k
        /\ \A j \in 1..Len(selected_pages) : \E i \in 1..Len(listed_pages) :
               selected_pages[j] = listed_pages[i]
        /\ \A w \in WrittenAnswers : w.text = page_selection =>
               LET a == w.answer
                   n == Len(listed_pages)
                   named == UNION {NamedBy(a.mentions[k], n) : k \in 1..Len(a.mentions)}
               IN  /\ {selected_pages[j] : j \in 1..Len(selected_pages)} =
                          {listed_pages[i] : i \in named}
                   /\ \A i, j \in named :
                          (\/ FirstMention(a, n, i) < FirstMention(a, n, j)
                           \/ FirstMention(a, n, i) = FirstMention(a, n, j) /\ i < j) =>
                              PositionOf(selected_pages, listed_pages[i]) <
                                  PositionOf(selected_pages, listed_pages[j])

\* page 3 is named before the range 1-3 that names it again
C28_Witness ==
    /\ PagesSelected
    /\ page_selection = "3,1-3"
    /\ listed_pages = Listing(3)
    /\ selected_pages = <<Listing(3)[3], Listing(3)[1], Listing(3)[2]>>

\* a range that ends before it starts, and a range with a bound past the list
C28_WitnessEmptyRanges ==
    /\ PagesSelected
    /\ page_selection = "3-2,2-4"
    /\ listed_pages = Listing(3)
    /\ selected_pages = <<>>

------------------------------------------------------------------------------
(* Claims about the order of the calls of a chat turn *)

\* the (user message, reply) pair of the turn that ended
TurnPair == <<Message("user", user_message), Message("assistant", chat_completion.content)>>

\* some stored record or add call of the list holds the error text as a reply
HoldsErrorReply(records) ==
    \E i \in 1..Len(records) : \E j \in 1..Len(records[i].messages) :
        /\ records[i].messages[j].role = "assistant"
        /\ records[i].messages[j].content \in {ErrorReply("cli"), ErrorReply("streamlit")}

\* C23: in a chat turn the collaborator calls are the memory search, then
\* the completion, then the memory add; the add call is made once, with the
\* (user message, reply) pair, only in a turn whose completion call returned
\* (the pair is stored unless that call raises, which is caught); a turn
\* whose completion fails makes no add call and leaves the store as it was,
\* and the error text is never stored as an assistant reply.
C23_TurnOrder ==
    [][(pc = "ready" /\ pc' = "responded") =>
          /\ chat_completion'.ok =>
                /\ calls' = <<"search", "completion", "add">>
                /\ Len(memory_added') = Len(memory_added) + 1
                /\ SubSeq(memory_added', 1, Len(memory_added)) = memory_added
                /\ memory_added'[Len(memory_added')].messages = TurnPair'
                /\ memory_added'[Len(memory_added')].user_id = user_id
                /\ store' = IF memory_added'[Len(memory_added')].ok
                            THEN Append(store, [user_id |-> user_id, messages |-> TurnPair'])
                            ELSE store
          /\ ~chat_completion'.ok =>
                /\ calls' = <<"search", "completion">>
                /\ memory_added' = memory_added
                /\ store' = store
                /\ response' = ErrorReply(front)
          /\ ~HoldsErrorReply(store')
          /\ ~HoldsErrorReply(memory_added')]_vars

\* a turn whose three calls were made and whose pair reached the store
C23_Witness ==
    /\ pc = "responded"
    /\ calls = <<"search", "completion", "add">>
    /\ store # <<>>
    /\ store[Len(store)].messages = TurnPair
    /\ response = "A reply"

\* a turn whose completion call raised: two calls, nothing stored
C23_WitnessFailed ==
    /\ pc = "responded"
    /\ calls = <<"search", "completion">>
    /\ response = ErrorReply(front)
    /\ store = <<>>
    /\ memory_added = <<>>

------------------------------------------------------------------------------
(* Claims about the content snapshots of a CLI session *)

\* the content snapshots the store holds for an owner, oldest first
OwnerSnapshots(held, owner) ==
    SelectSeq(held, LAMBDA rec : /\ rec.user_id = owner
                                 /\ rec.messages[1].role = "system"
                                 /\ StartsWith(rec.messages[1].content, Sentinel))

\* C24 as the claim states it: between the operations of a CLI session,
\* notion_loaded is true only if notion_content is non-empty and the most
\* recent snapshot stored for the owner is the snapshot of exactly the
\* current notion_content.
C24_AsStated ==
    (AtPrompt /\ front = "cli" /\ notion_loaded) =>
        /\ notion_content # ""
        /\ LET snapshots == OwnerSnapshots(store, user_id)
           IN  /\ snapshots # <<>>
               /\ snapshots[Len(snapshots)].messages = SnapshotMessages(notion_content)

\* C25 as the claim states it: between the operations of a CLI session the
\* store holds at most one content snapshot for the owner.
C25_AsStated ==
    (AtPrompt /\ front = "cli") => Len(OwnerSnapshots(store, user_id)) <= 1

------------------------------------------------------------------------------
(* Termination of the CLI session *)

\* the interpreter always runs the next step of the session: a step that is
\* possible is eventually taken
SpecCliFair == InitCli /\ [][NextCli]_vars /\ WF_vars(NextCli)

\* C26 as the claim states it: every CLI session over a finite input stream
\* terminates, the chat loop ending also when reading the input fails because
\* the stream has ended or the owner key was never set.
C26_AsStated == <>(pc = "ended")

------------------------------------------------------------------------------
(* Claims about the commands of the chat loop *)

CommandWords == {"quit", "exit", "bye", "memory", "clear", "reload", "content"}

\* the line read is a command word in some letter case, or empty
CommandWordRead == [line \in {Stripped[l] : l \in InputLines} |->
                       line = "" \/ Lower(line) \in CommandWords]

\* a step that reads a line of the input
LineRead == AtPrompt /\ input_left' = input_left - 1

\* the records of a list that hold a conversation turn
ConversationsIn(records) ==
    SelectSeq(records, LAMBDA rec : rec.messages[1].role = "user")

\* C27: a command word in any letter case, or the empty line, never leads
\* to a completion call and never adds a conversation turn; a chat turn is
\* started only by a line that is neither, and is the only step that calls
\* the completion provider or adds a conversation; memory and content leave
\* the loaded content and the store as they were.
C27_CommandsStartNoTurn ==
    [][/\ LineRead =>
             /\ (pc' = "ready") = ~CommandWordRead[user_input']
             /\ groq_messages' = groq_messages
             /\ calls' = calls
             /\ ConversationsIn(memory_added') = ConversationsIn(memory_added)
             /\ Len(ConversationsIn(store')) <= Len(ConversationsIn(store))
             /\ Lower(user_input') \in {"memory", "content"} =>
                    /\ notion_content' = notion_content
                    /\ notion_loaded' = notion_loaded
                    /\ store' = store
                    /\ pc' = "prompt"
       /\ (pc' = "ready") => LineRead
       /\ (\/ pc' = "responded"
           \/ groq_messages' # groq_messages
           \/ ConversationsIn(memory_added') # ConversationsIn(memory_added)
           \/ Len(ConversationsIn(store')) > Len(ConversationsIn(store))) =>
             /\ pc = "ready"
             /\ ~CommandWordRead[user_input]
             /\ user_message' = user_input]_vars

\* the command Memory was read with content loaded and a snapshot stored
C27_Witness ==
    /\ pc = "prompt"
    /\ user_input = "Memory"
    /\ command = "memory"
    /\ notion_loaded
    /\ store # <<>>
    /\ groq_messages = <<>>

\* a step that reads the command reload or clear
ReloadRead == LineRead /\ Lower(user_input') \in {"reload", "clear"}

\* C29: a reload, or the reload inside clear, enters the load only with a
\* database or a page selected; with nothing selected it returns to the
\* prompt leaving notion_content and notion_loaded unchanged and making no
\* memory add call, the store changing only by the delete_all of clear.
C29_EmptyReloadKeepsContent ==
    [][ReloadRead =>
          /\ pc' \in {"prompt", "load_start"}
          /\ (pc' = "load_start") => (selected_databases' \/ selected_pages' # <<>>)
          /\ (pc' = "prompt") =>
                /\ notion_content' = notion_content
                /\ notion_loaded' = notion_loaded
                /\ memory_added' = memory_added
                /\ store' = IF command' = "clear" /\ delete_ok' THEN DeleteAll(store, user_id)
                            ELSE store
                /\ UNCHANGED loadVars]_vars

\* a reload with nothing selected, after a load that stored its snapshot
C29_Witness ==
    /\ pc = "prompt"
    /\ command = "reload"
    /\ user_input = "RELOAD"
    /\ notion_loaded
    /\ notion_content # ""
    /\ notion_content = content_before
    /\ store = store_before
    /\ Len(OwnerSnapshots(store, user_id)) = 1

------------------------------------------------------------------------------
(* Claims about the two generate_response functions as prompt builders *)

\* the system prompt NotionGroqChatbot.generate_response builds
CliSystemPrompt(loaded, content, memories) ==
    SystemPrompt(CliNotionContext(loaded, content), Context(CliFiltered(memories)))

\* the system prompt StreamlitNotionChatbot.generate_response builds
StreamlitSystemPrompt(content, memories) ==
    SystemPrompt(StreamlitNotionContext(content), Context(StreamlitFiltered(memories)))

\* C30 as the claim states it: from the content, the retrieved memories and
\* the user message of a turn, the CLI and the Streamlit generate_response
\* build the same system prompt, send the same (system, user) sequence and
\* store the same conversation pair.
C30_AsStated ==
    (pc = "responded") =>
        /\ CliSystemPrompt(notion_loaded, notion_content, relevant_memories) =
               StreamlitSystemPrompt(notion_content, relevant_memories)
        /\ system_prompt = StreamlitSystemPrompt(notion_content, relevant_memories)
        /\ groq_messages = <<Message("system", system_prompt), Message("user", user_message)>>
        /\ chat_completion.ok =>
               memory_added[Len(memory_added)].messages = TurnPair

\* a turn of the CLI after a load whose snapshot could not be stored: the
\* content is set, the flag is not, and the prompt has no Notion part
C30_FlagDivergence ==
    ~(/\ pc = "responded"
      /\ front = "cli"
      /\ notion_content # ""
      /\ ~notion_loaded
      /\ system_prompt # StreamlitSystemPrompt(notion_content, relevant_memories))

\* a turn of the CLI whose search returned a memory that is not a string:
\* the CLI prompt holds its str(), which the Streamlit filter drops
C30_NonStringDivergence ==
    ~(/\ pc = "responded"
      /\ front = "cli"
      /\ CliFiltered(relevant_memories) # StreamlitFiltered(relevant_memories))

====
